---- MODULE Spec2Model ----
(***************************************************************************)
(* opensrc-mcp: the indexing engine (vector/index.ts), the vector store    *)
(* tables (vector/db.ts), the source registry and file API (api/opensrc.ts)*)
(* as a state machine.  One action per handler or per await-delimited step *)
(* of an async function.                                                   *)
(***************************************************************************)
EXTENDS Integers, Sequences, FiniteSets, TLC

\* ------------------------------------------------------------------ bounds
\* Source names that callers use; "c" is a source whose tree yields no chunk.
Sources == {"a", "b", "c"}
\* Number of injected failures (error results or thrown exceptions) per behaviour.
MaxFaults == 1
\* Longest list of specs in one fetch call.
MaxSpecs == 2
\* Longest list of paths in one readMany call.
MaxPaths == 2
\* Most remove calls in flight at a time.
MaxRemoves == 2
\* Most search calls of the worker-based vector module in one behaviour.
MaxSearches == 2

\* Milliseconds per clock tick of the sandbox.
TickMs == 10000
\* Longest stretch of work of a script, in ticks.
MaxWork == 2
\* Longest chain of property reads and calls of a probing script.
MaxPath == 4
\* Most top-level declarations of a TypeScript or Rust file.
MaxItems == 2
\* Most lines of a Markdown file.
MaxLines == 5
\* Most rows of the chunks table a scan runs over.
MaxRows == 3
\* Most runs of lines of a text file.
MaxRuns == 3
\* Largest topK of a scan.
MaxTopK == 2
\* Most sources a grep goes through, and most files of one source.
MaxGrep == 2
\* Lines of a long file a grep goes through.
LongFile == 60

\* ------------------------------------------------------- program constants
MAX_CONCURRENT_INDEX == 2
BATCH_SIZE == 50
TIMEOUT_MS == 30000
WINDOW_SIZE == 50
DEFAULT_MAX_RESULTS == 100
OVERLAP == 15

\* Number of chunks chunkFiles yields for the tree of a source.
NumChunks(s) == CASE s = "a" -> 70 [] s = "b" -> 50 [] OTHER -> 0

Min(x, y) == IF x < y THEN x ELSE y

NoBatch == [lo |-> 0, hi |-> 0]
IdleTask == [pc |-> "idle", files |-> 0, pos |-> 0, batch |-> NoBatch,
             totalChunks |-> 0, flush |-> FALSE]
NoHit == [source |-> "", lo |-> 0, hi |-> 0]
NoAccess == [op |-> "", source |-> "", status |-> "", entries |-> {}]
NoResp == [opt |-> {}, error |-> "", sources |-> {}, hit |-> NoHit]
NoScript == [kind |-> "", sync1 |-> 0, loops1 |-> FALSE, wait |-> 0, never |-> FALSE,
             sync2 |-> 0, loops2 |-> FALSE, name |-> "", path |-> <<>>]
NoReply == [isError |-> FALSE, message |-> "", text |-> "", at |-> 0]
IdleSandbox == [pc |-> "idle", script |-> NoScript, elapsed |-> 0, left |-> 0, timerAt |-> 0,
                defined |-> {}, reached |-> "", reply |-> NoReply]
NoCall == [op |-> "", input |-> <<>>, output |-> <<>>]
NoFetch == [active |-> FALSE, specs |-> <<>>, ok |-> {}, status |-> "", records |-> <<>>]

\* The ids of the search calls, in the order randomUUID() hands them out.
Ids == 1..MaxSearches
NoTimer == -1
\* The worker-based vector module before initVector.  timer[id] is the number
\* of ticks since setTimeout, NoTimer when no timer of the call is active;
\* outcome[id] is how the promise of the call settled, calls[id] the number of
\* calls of its resolve or reject, waited[id] the ticks it took to settle.
IdleClient == [worker |-> FALSE, ready |-> FALSE, nextId |-> 1, pending |-> {},
               timer |-> [id \in Ids |-> NoTimer],
               outcome |-> [id \in Ids |-> "none"],
               calls |-> [id \in Ids |-> 0],
               waited |-> [id \in Ids |-> 0],
               toWorker |-> {}, toMain |-> {}, ignored |-> 0, logged |-> FALSE]

VARIABLES
  phase,               \* main(): "boot" | "serving" | "crashed"
  ready,               \* vector/index.ts: ready (db open and embedder loaded)
  indexed_sources,     \* table indexed_sources: set of names
  chunks,              \* table chunks: per source, the inserted row ranges in order
  quantized,           \* per source: how many of its row ranges the quantized index holds
  indexingInProgress,  \* Set<string>
  activeIndexCount,    \* semaphore counter
  indexQueue,          \* Array of queued sources (FIFO)
  task,                \* per source: the frame of its indexSourceInternal call
  settled,             \* settled indexSourceInternal promises whose .finally callback is pending
  unhandledRejection,  \* a rejected promise without handler exists
  faults,              \* failures (error results, exceptions) the environment may still inject
  sources,             \* main(): in-memory sources list (names)
  manifest,            \* sources.json
  disk,                \* the sources whose directory exists under the data root
  fetching,            \* a fetch call: in flight after fetchCommand, then its result
  searchResp,          \* the response of a semanticSearch call that has just returned
  access,              \* the file API call that has just returned: what it touched
  sandbox,             \* the executor: the call of a script, its context, its reply
  lib,                 \* the call of a function of a module that has just returned
  removing,            \* the remove calls that await removeSourcesByName
  vectorWorker         \* the worker-based vector module: worker, pending map, timers, messages

vars == <<phase, ready, indexed_sources, chunks, quantized, indexingInProgress, activeIndexCount,
          indexQueue, task, settled, unhandledRejection, faults, sources, manifest,
          disk, fetching, searchResp, access, sandbox, lib, removing, vectorWorker>>

\* The variables of the file API, of the executor, of the module calls, of the
\* remove calls in flight and of the worker-based vector module.
fileVars == <<access, sandbox, lib, removing, vectorWorker>>

\* ------------------------------------------------------------- vector/db.ts
isIndexed(tbl, s) == s \in tbl

markIndexed(tbl, s) == tbl \cup {s}

insertChunks(tbl, s, batch) == [tbl EXCEPT ![s] = Append(@, batch)]

\* finalizeVectorIndex: vector_quantize builds the index over every row of the table.
finalizeVectorIndex(tbl) == [s \in DOMAIN tbl |-> Len(tbl[s])]

\* ---------------------------------------------------------- vector/index.ts
\* The engine fields that queueIndex and processIndexQueue read and write.
Engine == [ready |-> ready, queue |-> indexQueue, count |-> activeIndexCount,
           indexing |-> indexingInProgress, task |-> task, settled |-> settled]

InQueue(q, s) == \E i \in 1..Len(q) : q[i] = s

\* The synchronous head of indexSourceInternal, up to its first await.
indexSourceInternal(e, s) ==
  IF isIndexed(indexed_sources, s) \/ s \in e.indexing
  THEN [e EXCEPT !.settled = [@ EXCEPT !.fulfilled = @ + 1]]
  ELSE [e EXCEPT !.indexing = @ \cup {s},
                 !.task = [@ EXCEPT ![s] = [IdleTask EXCEPT !.pc = "glob"]]]

\* The scheduler loop with the capacity test off by one.
RECURSIVE processIndexQueueOverCapacity(_)
processIndexQueueOverCapacity(e) ==
  IF e.count <= MAX_CONCURRENT_INDEX /\ Len(e.queue) > 0
  THEN processIndexQueueOverCapacity(
         indexSourceInternal([e EXCEPT !.queue = Tail(@), !.count = @ + 1],
                             Head(e.queue)))
  ELSE e
RECURSIVE processIndexQueue(_)
processIndexQueue(e) ==
  IF e.count < MAX_CONCURRENT_INDEX /\ Len(e.queue) > 0
  THEN processIndexQueue(
         indexSourceInternal([e EXCEPT !.queue = Tail(@), !.count = @ + 1],
                             Head(e.queue)))
  ELSE e

\* Enqueue without the indexed / indexing / queued tests.
queueIndexNoCheck(e, s) ==
  IF ~e.ready THEN e
  ELSE processIndexQueue([e EXCEPT !.queue = Append(@, s)])
queueIndex(e, s) ==
  IF ~e.ready THEN e
  ELSE IF isIndexed(indexed_sources, s) \/ s \in e.indexing THEN e
  ELSE IF InQueue(e.queue, s) THEN e
  ELSE processIndexQueue([e EXCEPT !.queue = Append(@, s)])

\* queueIndex for every element of a list, in list order.
RECURSIVE queueAll(_, _)
queueAll(e, list) ==
  IF list = <<>> THEN e
  ELSE queueAll(queueIndex(e, Head(list)), Tail(list))

SetEngine(e) ==
  /\ indexQueue' = e.queue
  /\ activeIndexCount' = e.count
  /\ indexingInProgress' = e.indexing
  /\ task' = e.task
  /\ settled' = e.settled


\* ------------------------------------------------------------------- Init
\* sources.json when the server starts: a fresh data root, or one that earlier
\* sessions filled.
Manifests == {{}, Sources}

Init ==
  /\ phase = "boot"
  /\ ready = FALSE
  /\ indexed_sources = {}
  /\ chunks = [s \in Sources |-> <<>>]
  /\ quantized = [s \in Sources |-> 0]
  /\ indexingInProgress = {}
  /\ activeIndexCount = 0
  /\ indexQueue = <<>>
  /\ task = [s \in Sources |-> IdleTask]
  /\ settled = [fulfilled |-> 0, rejected |-> 0]
  /\ unhandledRejection = FALSE
  /\ faults = MaxFaults
  /\ sources = {}
  /\ manifest \in Manifests
  /\ disk = manifest
  /\ fetching = NoFetch
  /\ searchResp = NoResp
  /\ access = NoAccess
  /\ sandbox = IdleSandbox
  /\ lib = NoCall
  /\ removing = {}
  /\ vectorWorker = IdleClient

storeVars == <<indexed_sources, chunks, quantized>>
engineVars == <<indexingInProgress, activeIndexCount, indexQueue, task, settled>>
registryVars == <<sources, manifest, disk, fetching>>

\* The registry list in manifest order (packages, then repos).
SourceOrder == <<"a", "c", "b", "d">>
ListOf(S) == SelectSeq(SourceOrder, LAMBDA x : x \in S)

\* vector/index.ts indexExistingSources
indexExistingSources(e, S) ==
  IF ~e.ready THEN e
  ELSE queueAll(e, ListOf({s \in S : ~isIndexed(indexed_sources, s)}))

\* main(): readSources, initVector, indexExistingSources, connect.
MainVectorOk ==
  /\ phase = "boot"
  /\ phase' = "serving"
  /\ ready' = TRUE
  /\ sources' = manifest
  /\ SetEngine(indexExistingSources([Engine EXCEPT !.ready = TRUE], manifest))
  /\ UNCHANGED <<searchResp, fileVars, storeVars, unhandledRejection, faults, manifest, disk, fetching>>

\* main() that gives up when initVector returns an error.
MainVectorErrExits ==
  /\ phase = "boot"
  /\ phase' = "exited"
  /\ UNCHANGED <<searchResp, fileVars, ready, storeVars, engineVars, unhandledRejection, faults,
                 registryVars>>
\* main(): initVector returns an error; it is logged and the server connects.
MainVectorErr ==
  /\ phase = "boot"
  /\ phase' = "serving"
  /\ sources' = manifest
  /\ UNCHANGED <<searchResp, fileVars, ready, storeVars, engineVars, unhandledRejection, faults, manifest,
                 disk, fetching>>

\* ------------------------------------------------- indexSourceInternal steps
\* The process serves requests and runs tasks; the caller of the last search,
\* fetch or file call has taken its response, and no script holds the thread.
Serving ==
  /\ phase \in {"serving", "stopping"}
  /\ searchResp = NoResp /\ access = NoAccess /\ fetching.status = ""
  /\ sandbox.pc \in {"idle", "race"}

Running(s, pc) == Serving /\ task[s].pc = pc

\* The end of a run without the finally block.
EndRunNoFinally(s, how) ==
  /\ indexingInProgress' = indexingInProgress
  /\ task' = [task EXCEPT ![s] = IdleTask]
  /\ settled' = [settled EXCEPT ![how] = @ + 1]
  /\ UNCHANGED <<activeIndexCount, indexQueue>>
\* The finally block of indexSourceInternal; the promise settles as `how`.
EndRun(s, how) ==
  /\ indexingInProgress' = indexingInProgress \ {s}
  /\ task' = [task EXCEPT ![s] = IdleTask]
  /\ settled' = [settled EXCEPT ![how] = @ + 1]
  /\ UNCHANGED <<activeIndexCount, indexQueue>>

Fault == faults > 0 /\ faults' = faults - 1

\* fg() resolves with the file list of the source directory.
GlobDone(s) ==
  /\ Running(s, "glob")
  /\ task' = [task EXCEPT ![s].pc = "read",
                          ![s].files = IF s \in disk THEN NumChunks(s) ELSE 0]
  /\ UNCHANGED <<searchResp, fileVars, phase, ready, storeVars, indexingInProgress, activeIndexCount,
                 indexQueue, settled, unhandledRejection, faults, registryVars>>

\* fg() rejects: the exception leaves indexSourceInternal through finally.
GlobThrows(s) ==
  /\ Running(s, "glob")
  /\ Fault
  /\ EndRun(s, "rejected")
  /\ UNCHANGED <<searchResp, fileVars, phase, ready, storeVars, unhandledRejection, registryVars>>

\* The end of a run that marks the source without building the index.
FinishNoFinalize(s, total, outcome, tbl) ==
  /\ outcome = "finalizeErr" => total > 0
  /\ quantized' = quantized
  /\ indexed_sources' = IF outcome = "ok" THEN markIndexed(indexed_sources, s)
                        ELSE indexed_sources
  /\ EndRun(s, IF outcome = "markThrows" THEN "rejected" ELSE "fulfilled")
  /\ IF outcome = "ok" THEN faults' = faults ELSE Fault
\* After the loop: finalizeVectorIndex if totalChunks > 0, markIndexed, finally.
\* outcome: "ok" | "finalizeErr" | "markThrows"; tbl is the chunks table by then.
Finish(s, total, outcome, tbl) ==
  /\ outcome = "finalizeErr" => total > 0
  /\ quantized' = IF total > 0 /\ outcome # "finalizeErr"
                  THEN finalizeVectorIndex(tbl) ELSE quantized
  /\ indexed_sources' = IF outcome = "ok" THEN markIndexed(indexed_sources, s)
                        ELSE indexed_sources
  /\ EndRun(s, IF outcome = "markThrows" THEN "rejected" ELSE "fulfilled")
  /\ IF outcome = "ok" THEN faults' = faults ELSE Fault


\* chunkFiles feeds the batch until it holds BATCH_SIZE chunks or the files end.
\* A file that cannot be read (its directory was removed) yields nothing.
ReadChunks(s, outcome) ==
  /\ Running(s, "read")
  /\ LET t == task[s]
         avail == IF s \in disk THEN t.files - t.pos ELSE 0
         n == Min(BATCH_SIZE, avail)
         b == [lo |-> t.pos + 1, hi |-> t.pos + n]
     IN IF n >= BATCH_SIZE
        THEN /\ outcome = "ok"
             /\ task' = [task EXCEPT ![s].pc = "embed", ![s].pos = t.pos + n,
                                     ![s].batch = b, ![s].flush = FALSE]
             /\ UNCHANGED <<storeVars, indexingInProgress, activeIndexCount,
                            indexQueue, settled, faults>>
        ELSE IF n > 0
        THEN /\ outcome = "ok"
             /\ task' = [task EXCEPT ![s].pc = "embed", ![s].pos = t.files,
                                     ![s].batch = b, ![s].flush = TRUE]
             /\ UNCHANGED <<storeVars, indexingInProgress, activeIndexCount,
                            indexQueue, settled, faults>>
        ELSE /\ Finish(s, t.totalChunks, outcome, chunks)
             /\ UNCHANGED chunks
  /\ UNCHANGED <<searchResp, fileVars, phase, ready, unhandledRejection, registryVars>>

\* processBatch that builds the vector index after every batch.
EmbedInsertOkFinalizeEach(s, outcome) ==
  /\ Running(s, "embed")
  /\ chunks' = insertChunks(chunks, s, task[s].batch)
  /\ LET t == task[s]
         processed == t.batch.hi - t.batch.lo + 1
     IN IF ~t.flush
        THEN /\ outcome = "ok"
             /\ task' = [task EXCEPT ![s].pc = "yield", ![s].batch = NoBatch,
                                     ![s].totalChunks = t.totalChunks + processed]
             /\ quantized' = finalizeVectorIndex(insertChunks(chunks, s, task[s].batch))
             /\ UNCHANGED <<indexed_sources, indexingInProgress,
                            activeIndexCount, indexQueue, settled, faults>>
        ELSE Finish(s, t.totalChunks + processed, outcome,
                    insertChunks(chunks, s, task[s].batch))
  /\ UNCHANGED <<searchResp, fileVars, phase, ready, unhandledRejection, registryVars>>
\* processBatch followed by the next turn of the loop, with no yield between.
EmbedInsertOkNoYield(s, outcome) ==
  /\ Running(s, "embed")
  /\ chunks' = insertChunks(chunks, s, task[s].batch)
  /\ LET t == task[s]
         processed == t.batch.hi - t.batch.lo + 1
         avail == IF s \in disk THEN t.files - t.pos ELSE 0
         n == Min(BATCH_SIZE, avail)
     IN IF ~t.flush /\ n > 0
        THEN /\ outcome = "ok"
             /\ task' = [task EXCEPT ![s].pc = "embed", ![s].pos = t.pos + n,
                                     ![s].batch = [lo |-> t.pos + 1, hi |-> t.pos + n],
                                     ![s].flush = n < BATCH_SIZE,
                                     ![s].totalChunks = t.totalChunks + processed]
             /\ UNCHANGED <<indexed_sources, quantized, indexingInProgress,
                            activeIndexCount, indexQueue, settled, faults>>
        ELSE Finish(s, t.totalChunks + processed, outcome,
                    insertChunks(chunks, s, task[s].batch))
  /\ UNCHANGED <<searchResp, fileVars, phase, ready, unhandledRejection, registryVars>>
\* processBatch: embedChunks resolved and insertChunks returned Ok; then
\* indexSourceInternal resumes with the count: inside the loop it clears the
\* batch and awaits yieldToEventLoop, after the loop it finishes.
EmbedInsertOk(s, outcome) ==
  /\ Running(s, "embed")
  /\ chunks' = insertChunks(chunks, s, task[s].batch)
  /\ LET t == task[s]
         processed == t.batch.hi - t.batch.lo + 1
     IN IF ~t.flush
        THEN /\ outcome = "ok"
             /\ task' = [task EXCEPT ![s].pc = "yield", ![s].batch = NoBatch,
                                     ![s].totalChunks = t.totalChunks + processed]
             /\ UNCHANGED <<indexed_sources, quantized, indexingInProgress,
                            activeIndexCount, indexQueue, settled, faults>>
        ELSE Finish(s, t.totalChunks + processed, outcome,
                    insertChunks(chunks, s, task[s].batch))
  /\ UNCHANGED <<searchResp, fileVars, phase, ready, unhandledRejection, registryVars>>

\* processBatch: insertChunks returned Err (DatabaseError); processBatch returns
\* -1 and indexSourceInternal returns through finally.
InsertErr(s) ==
  /\ Running(s, "embed")
  /\ Fault
  /\ EndRun(s, "fulfilled")
  /\ UNCHANGED <<searchResp, fileVars, phase, ready, storeVars, unhandledRejection, registryVars>>

\* processBatch: the embedder call rejects; nothing catches it before finally.
EmbedThrows(s) ==
  /\ Running(s, "embed")
  /\ Fault
  /\ EndRun(s, "rejected")
  /\ UNCHANGED <<searchResp, fileVars, phase, ready, storeVars, unhandledRejection, registryVars>>

\* setImmediate fired: the loop asks chunkFiles for the next chunk.
YieldDone(s) ==
  /\ Running(s, "yield")
  /\ task' = [task EXCEPT ![s].pc = "read"]
  /\ UNCHANGED <<searchResp, fileVars, phase, ready, storeVars, indexingInProgress, activeIndexCount,
                 indexQueue, settled, unhandledRejection, faults, registryVars>>

\* processIndexQueue's .finally callback of a settled run.  The promise that
\* .finally returns repeats a rejection; nothing handles it, and the runtime
\* ends the process on an unhandled rejection.
FinallyCallback(how) ==
  /\ Serving
  /\ settled[how] > 0
  /\ SetEngine(processIndexQueue(
        [Engine EXCEPT !.settled = [@ EXCEPT ![how] = @ - 1], !.count = @ - 1]))
  /\ unhandledRejection' = (unhandledRejection \/ how = "rejected")
  /\ phase' = IF how = "rejected" THEN "crashed" ELSE phase
  /\ UNCHANGED <<searchResp, fileVars, ready, storeVars, faults, registryVars>>

\* ------------------------------------------------------ registry (api, sources)
Range(f) == {f[i] : i \in DOMAIN f}

\* Source.type of each name.
TypeOf(s) == CASE s = "a" -> "npm" [] s = "b" -> "repo" [] OTHER -> "pypi"

\* fetch: fetchCommand has resolved.  The fetcher wrote the trees of the specs
\* that succeeded and listed them in sources.json.
FetchCommand(specs, ok) ==
  /\ Serving
  /\ ~fetching.active
  /\ ok \subseteq Range(specs)
  /\ disk' = disk \cup ok
  /\ manifest' = manifest \cup ok
  /\ fetching' = [NoFetch EXCEPT !.active = TRUE, !.specs = specs, !.ok = ok]
  /\ UNCHANGED <<searchResp, fileVars, phase, ready, storeVars, engineVars, unhandledRejection, faults, sources>>

\* The specs a fetch call can name: lists without repetition.
FetchSpecs ==
  {q \in UNION {[1..n -> Sources] : n \in 1..MaxSpecs} :
     \A i, j \in DOMAIN q : i # j => q[i] # q[j]}

\* fetch: the records of a call whose specs all succeeded.
fetchResults(specs) ==
  [i \in DOMAIN specs |-> [source |-> specs[i], alreadyExists |-> FALSE]]

\* fetch: readSources, updateSources, then the result loop: it throws at the
\* first failed record and at the first record whose source is not in the new
\* list (the call is an error), and otherwise queueIndex is called for every
\* result and the records are returned.
FetchReturn ==
  /\ Serving
  /\ fetching.active
  /\ sources' = manifest
  /\ SetEngine(IF fetching.ok = Range(fetching.specs) /\ Range(fetching.specs) \subseteq manifest
               THEN queueAll(Engine, fetching.specs)
               ELSE Engine)
  /\ fetching' = IF fetching.ok = Range(fetching.specs) /\ Range(fetching.specs) \subseteq manifest
                 THEN [fetching EXCEPT !.active = FALSE, !.status = "ok",
                                       !.records = fetchResults(fetching.specs)]
                 ELSE [fetching EXCEPT !.active = FALSE, !.status = "error"]
  /\ UNCHANGED <<searchResp, fileVars, phase, ready, storeVars, unhandledRejection, faults, manifest, disk>>

\* The caller takes the result of the fetch call.
FetchTaken ==
  /\ fetching.status # ""
  /\ fetching' = NoFetch
  /\ UNCHANGED <<searchResp, fileVars, phase, ready, storeVars, engineVars, unhandledRejection,
                 faults, sources, manifest, disk>>

\* removeSourcesByName: the names of currentSources whose removal succeeded
\* (gone) lose their directory.
removeSourcesByName(names, gone) ==
  disk' = disk \ (names \cap sources \cap gone)

\* writeSources: sources.json keeps the entries whose name is in the list.
writeSources(list) == manifest' = manifest \cap list

\* remove(names)
Remove(names, gone) ==
  /\ Serving
  /\ names # {}
  /\ gone \subseteq names
  /\ removeSourcesByName(names, gone)
  /\ sources' = sources \ names
  /\ writeSources(sources \ names)
  /\ UNCHANGED <<searchResp, fileVars, phase, ready, storeVars, engineVars, unhandledRejection, faults, fetching>>

\* remove(names) up to its first await: getSources() is read, and
\* removeSourcesByName deletes the trees of the names whose removal succeeds
\* (gone); the fetcher's remove functions drop them from sources.json.
RemoveStart(names, gone) ==
  /\ Serving
  /\ names # {}
  /\ gone \subseteq names
  /\ Cardinality(removing) < MaxRemoves
  /\ removeSourcesByName(names, gone)
  /\ manifest' = manifest \ (names \cap sources \cap gone)
  /\ removing' = removing \cup {[names |-> names, sources |-> sources,
                                   removed |-> names \cap sources \cap gone]}
  /\ UNCHANGED <<searchResp, access, sandbox, lib, vectorWorker, phase, ready, storeVars, engineVars,
                 unhandledRejection, faults, sources, fetching>>

\* remove(names) after the await: the list read before it is filtered, stored
\* with updateSources and written with writeSources.
RemoveResume(r) ==
  /\ Serving
  /\ r \in removing
  /\ sources' = r.sources \ r.names
  /\ writeSources(r.sources \ r.names)
  /\ removing' = removing \ {r}
  /\ UNCHANGED <<searchResp, access, sandbox, lib, vectorWorker, phase, ready, storeVars, engineVars,
                 unhandledRejection, faults, disk, fetching>>

\* One of the remove calls in flight resumes.
RemoveFinish ==
  /\ removing # {}
  /\ \E r \in removing : RemoveResume(r)

\* cleanSourcesFiltered: the sources an option set selects.
toRemove(options) ==
  {s \in sources :
     \/ options = {}
     \/ "packages" \in options /\ TypeOf(s) # "repo"
     \/ "repos" \in options /\ TypeOf(s) = "repo"
     \/ "npm" \in options /\ TypeOf(s) = "npm"
     \/ "pypi" \in options /\ TypeOf(s) = "pypi"
     \/ "crates" \in options /\ TypeOf(s) = "crates"}

\* clean(options)
Clean(options, gone) ==
  /\ Serving
  /\ gone \subseteq toRemove(options)
  /\ removeSourcesByName(toRemove(options), gone)
  /\ sources' = sources \ gone
  /\ writeSources(sources \ gone)
  /\ UNCHANGED <<searchResp, fileVars, phase, ready, storeVars, engineVars, unhandledRejection, faults, fetching>>

\* ------------------------------------------------------- file API (api/opensrc.ts)
\* A path string is its list of segments and whether it starts with "/".
rel(segs) == [abs |-> FALSE, segs |-> segs]
absolute(segs) == [abs |-> TRUE, segs |-> segs]

\* getOpensrcDir(): the data root, /d.
opensrcDir == <<"d">>

\* source.path of each source: "a", "ab" and "c" under the data root, so the
\* directory of b is a sibling of a's whose name starts with a's.
SourceDir(s) == CASE s = "a" -> <<"a">> [] s = "b" -> <<"ab">> [] OTHER -> <<"c">>

\* The directories and the regular files of the file system; a source has its
\* tree while its directory exists.  /d/s is sources.json, /e lies outside the
\* data root.
Dirs ==
  {<<>>, <<"d">>} \cup {opensrcDir \o SourceDir(s) : s \in disk}
    \cup (IF "a" \in disk THEN {<<"d", "a", "g">>} ELSE {})
RegularFiles ==
  {<<"d", "s">>, <<"e">>}
    \cup (IF "a" \in disk THEN {<<"d", "a", "f">>, <<"d", "a", "g", "h">>} ELSE {})
    \cup (IF "b" \in disk THEN {<<"d", "ab", "f">>} ELSE {})

\* path.normalize over segments: "." is dropped, ".." drops the segment before
\* it and stays at the root.
RECURSIVE normalize(_, _)
normalize(segs, acc) ==
  IF segs = <<>> THEN acc
  ELSE IF Head(segs) = "." THEN normalize(Tail(segs), acc)
  ELSE IF Head(segs) = ".."
  THEN normalize(Tail(segs), IF acc = <<>> THEN acc ELSE SubSeq(acc, 1, Len(acc) - 1))
  ELSE normalize(Tail(segs), Append(acc, Head(segs)))

\* path.resolve(base, p): an absolute p replaces the base.
resolve(base, p) == normalize(IF p.abs THEN p.segs ELSE base \o p.segs, <<>>)

\* path.join(base, p): p is appended whether or not it starts with "/".
join(base, p) == normalize(base \o p.segs, <<>>)

\* The characters of a segment name.
Chars(name) == IF name = "ab" THEN <<"a", "b">> ELSE <<name>>

\* The string of an absolute path, character by character.
RECURSIVE Str(_)
Str(segs) ==
  IF segs = <<>> THEN <<>>
  ELSE <<"/">> \o Chars(Head(segs)) \o Str(Tail(segs))

\* String.prototype.startsWith
startsWith(str, prefix) ==
  Len(prefix) <= Len(str) /\ SubSeq(str, 1, Len(prefix)) = prefix

\* The check without the separator: a plain prefix test of the two strings.
withinSourceNoSeparator(fullPath, sourcePath) ==
  startsWith(Str(fullPath), Str(sourcePath))
\* The path traversal check of read, readMany and astGrep passes.
withinSource(fullPath, sourcePath) ==
  startsWith(Str(fullPath), Str(sourcePath) \o <<"/">>) \/ fullPath = sourcePath

\* fs.readFile(fullPath): the outcome.
readFile(fullPath) == IF fullPath \in RegularFiles THEN "content" ELSE "fs_error"

\* A glob segment list matches a relative path.
RECURSIVE MatchSegs(_, _)
MatchSegs(pat, path) ==
  IF pat = <<>> THEN path = <<>>
  ELSE IF Head(pat) = "**"
  THEN MatchSegs(Tail(pat), path) \/ (path # <<>> /\ MatchSegs(pat, Tail(path)))
  ELSE /\ path # <<>>
       /\ Head(pat) = "*" \/ Head(pat) = Head(path)
       /\ MatchSegs(Tail(pat), Tail(path))

\* The number of leading ".." segments of a pattern.
RECURSIVE Ups(_)
Ups(pat) == IF pat # <<>> /\ Head(pat) = ".." THEN 1 + Ups(Tail(pat)) ELSE 0

\* fast-glob fg(pattern, {cwd, onlyFiles}): the entries it returns, relative to
\* cwd.  A pattern that starts with ".." is matched from the parent directory.
fg(pattern, cwd, onlyFiles) ==
  LET k == Ups(pattern)
      base == SubSeq(cwd, 1, Len(cwd) - k)
      rest == SubSeq(pattern, k + 1, Len(pattern))
      found == {e \in (IF onlyFiles THEN RegularFiles ELSE RegularFiles \cup Dirs) :
                  /\ Len(e) > Len(base)
                  /\ SubSeq(e, 1, Len(base)) = base
                  /\ MatchSegs(rest, SubSeq(e, Len(base) + 1, Len(e)))}
  IN IF k > Len(cwd) \/ cwd \notin Dirs THEN {}
     ELSE {rel(SubSeq(pattern, 1, k) \o SubSeq(e, Len(base) + 1, Len(e))) : e \in found}

\* const isGlob = (p) => /[*?[\]{}]/.test(p)
isGlob(p) == \E i \in DOMAIN p.segs : p.segs[i] \in {"*", "**"}

\* One path of read or readMany: resolve, check, readFile.
readEntry(sourcePath, filePath) ==
  LET fullPath == resolve(sourcePath, filePath)
  IN [arg |-> filePath, full |-> fullPath,
      status |-> IF ~withinSource(fullPath, sourcePath) THEN "traversal"
                 ELSE readFile(fullPath)]

NotFound(op, s) == [op |-> op, source |-> s, status |-> "source_not_found", entries |-> {}]

\* What a file call leaves alone.
nonFileVars == <<searchResp, phase, ready, storeVars, engineVars, unhandledRejection,
                 faults, registryVars, sandbox, lib, removing, vectorWorker>>

\* read(sourceName, filePath)
Read(s, filePath) ==
  /\ Serving
  /\ access' = IF s \notin sources THEN NotFound("read", s)
                ELSE LET sourcePath == resolve(opensrcDir, rel(SourceDir(s)))
                         e == readEntry(sourcePath, filePath)
                     IN [op |-> "read", source |-> s, status |-> e.status, entries |-> {e}]
  /\ UNCHANGED nonFileVars

\* readMany(sourceName, paths): globs are expanded, then every path is checked.
ReadMany(s, paths) ==
  /\ Serving
  /\ access' = IF s \notin sources THEN NotFound("readMany", s)
                ELSE LET sourcePath == resolve(opensrcDir, rel(SourceDir(s)))
                         expandedPaths ==
                           UNION {IF isGlob(paths[i]) THEN fg(paths[i].segs, sourcePath, TRUE)
                                  ELSE {paths[i]} : i \in DOMAIN paths}
                     IN [op |-> "readMany", source |-> s, status |-> "ok",
                         entries |-> {readEntry(sourcePath, q) : q \in expandedPaths}]
  /\ UNCHANGED nonFileVars

\* The entries of a listing: what fast-glob returned, as it is handed back.
Listed(sourcePath, found) ==
  {[arg |-> q, full |-> join(sourcePath, q), status |-> "listed"] : q \in found}

\* files(sourceName, glob)
Files(s, glob) ==
  /\ Serving
  /\ access' = IF s \notin sources THEN NotFound("files", s)
                ELSE LET sourcePath == join(opensrcDir, rel(SourceDir(s)))
                     IN [op |-> "files", source |-> s, status |-> "ok",
                         entries |-> Listed(sourcePath, fg(glob, sourcePath, FALSE))]
  /\ UNCHANGED nonFileVars

\* tree(sourceName, {pattern}) with the default depth 3.
Tree(s, pattern) ==
  /\ Serving
  /\ access' = IF s \notin sources THEN NotFound("tree", s)
                ELSE LET sourcePath == join(opensrcDir, rel(SourceDir(s)))
                         found == fg(pattern, sourcePath, FALSE)
                                    \cup fg(<<"*">>, sourcePath, FALSE)
                                    \cup fg(<<"*", "*">>, sourcePath, FALSE)
                     IN [op |-> "tree", source |-> s, status |-> "ok",
                         entries |-> Listed(sourcePath, found)]
  /\ UNCHANGED nonFileVars

\* grep(pattern, {sources: [s], include}): every file fast-glob returns is read.
Grep(s, include) ==
  /\ Serving
  /\ access' = IF s \notin sources
                THEN [op |-> "grep", source |-> s, status |-> "ok", entries |-> {}]
                ELSE LET sourcePath == join(opensrcDir, rel(SourceDir(s)))
                     IN [op |-> "grep", source |-> s, status |-> "ok",
                         entries |-> {[arg |-> q, full |-> join(sourcePath, q),
                                       status |-> readFile(join(sourcePath, q))] :
                                      q \in fg(include, sourcePath, TRUE)}]
  /\ UNCHANGED nonFileVars

\* astGrep(sourceName, pattern, {glob}): a file that fails the check is skipped.
AstGrep(s, glob) ==
  /\ Serving
  /\ access' = IF s \notin sources THEN NotFound("astGrep", s)
                ELSE LET sourcePath == resolve(opensrcDir, rel(SourceDir(s)))
                     IN [op |-> "astGrep", source |-> s, status |-> "ok",
                         entries |-> {LET e == readEntry(sourcePath, q)
                                      IN IF e.status = "traversal"
                                         THEN [e EXCEPT !.status = "skipped"] ELSE e :
                                      q \in fg(glob, sourcePath, TRUE)}]
  /\ UNCHANGED nonFileVars

\* The caller takes the result of the file call.
AccessReturn ==
  /\ access # NoAccess
  /\ access' = NoAccess
  /\ UNCHANGED nonFileVars

\* Caller-supplied paths: inside the root, missing, the root itself, with ".."
\* segments, into the sibling whose name has the root as a prefix, absolute.
PathInputs ==
  {rel(<<"f">>), rel(<<"g", "h">>), rel(<<"x">>), rel(<<".">>), rel(<<"g", "..", "f">>),
   rel(<<"..", "a", "f">>), rel(<<"..", "ab", "f">>), rel(<<"..", "s">>),
   rel(<<"..", "..", "e">>), absolute(<<"e">>), absolute(<<"d", "a", "f">>),
   absolute(<<"d", "ab", "f">>)}

\* Caller-supplied globs.
GlobInputs ==
  {<<"**", "*">>, <<"*">>, <<"g", "*">>, <<"..", "*">>, <<"..", "ab", "*">>,
   <<"..", "..", "*">>}

\* The path lists of readMany.
PathLists ==
  LET entries == {rel(<<"f">>), rel(<<"..", "ab", "f">>), rel(<<"..", "s">>),
                  absolute(<<"e">>), rel(<<"**", "*">>), rel(<<"..", "*">>)}
  IN UNION {[1..n -> entries] : n \in 1..MaxPaths}

\* ------------------------------------------------------------ main: shutdown
\* SIGINT or SIGTERM: the handler starts and awaits writeSources(sources); the
\* event loop goes on with the indexing runs and the requests.
ShutdownSignal ==
  /\ Serving
  /\ phase = "serving"
  /\ phase' = "stopping"
  /\ writeSources(sources)
  /\ UNCHANGED <<searchResp, fileVars, ready, storeVars, engineVars, unhandledRejection,
                 faults, sources, disk, fetching>>

\* writeSources has resolved: shutdownVector closes the store and clears ready,
\* and process.exit(0) ends the process in the same turn of the event loop.
ShutdownExit ==
  /\ Serving
  /\ phase = "stopping"
  /\ phase' = "exited"
  /\ ready' = FALSE
  /\ UNCHANGED <<searchResp, fileVars, storeVars, engineVars, unhandledRejection,
                 faults, registryVars>>

\* ------------------------------------------------------ sandbox (executor)
\* The deadline in clock ticks.
TimeoutTicks == TIMEOUT_MS \div TickMs

\* The clock stops being counted here; a script that still holds the thread
\* never gives it back.
MaxElapsed == 2 * TimeoutTicks + MaxWork

\* What the sandbox leaves alone.
nonSandboxVars == <<searchResp, access, phase, ready, storeVars, engineVars,
                    unhandledRejection, faults, registryVars, lib, removing, vectorWorker>>

\* createContext: the names bound to a frozen host object, to a host function,
\* to a host string, and the names bound to undefined.
HostObjectNames == {"opensrc", "sources", "console", "JSON", "Object", "Array", "Result"}
HostFunctionNames == {"Promise"}
HostStringNames == {"cwd"}
BlockedNames == {"setTimeout", "setInterval", "setImmediate", "fetch", "require",
                 "process", "global", "globalThis"}

\* The value a property read or a call gives, by the kind of the value it is
\* applied to.  Objects and functions made by the host inherit from the host's
\* Object.prototype and Function.prototype, so their constructor is the host's;
\* the host's Function constructor compiles code that runs with the host's
\* globals.
Get(v, step) ==
  CASE v = "hostObject" /\ step = "method" -> "hostFunction"
    [] v = "hostObject" /\ step = "constructor" -> "hostFunction"
    [] v = "hostFunction" /\ step = "constructor" -> "HostFunctionCtor"
    [] v = "hostFunction" /\ step = "call" -> "primitive"
    [] v = "HostFunctionCtor" /\ step = "constructor" -> "HostFunctionCtor"
    [] v = "HostFunctionCtor" /\ step = "call" -> "hostCompiled"
    [] v = "hostCompiled" /\ step = "constructor" -> "HostFunctionCtor"
    [] v = "hostCompiled" /\ step = "call" -> "hostProcess"
    [] v = "hostProcess" /\ step = "method" -> "hostFunction"
    [] v = "hostProcess" /\ step = "constructor" -> "hostFunction"
    [] v = "primitive" /\ step = "constructor" -> "contextFunction"
    [] v = "contextFunction" /\ step = "constructor" -> "contextFunction"
    [] v = "contextFunction" /\ step = "call" -> "primitive"
    [] v = "undefined" -> "TypeError"
    [] v \in {"TypeError", "ReferenceError"} -> v
    [] OTHER -> "undefined"

\* The value of a global name in the context of the call.
Lookup(name, defined) ==
  IF name \in defined THEN "contextFunction"
  ELSE IF name \in HostObjectNames THEN "hostObject"
  ELSE IF name \in HostFunctionNames THEN "hostFunction"
  ELSE IF name \in HostStringNames THEN "primitive"
  ELSE IF name \in BlockedNames THEN "undefined"
  ELSE "ReferenceError"

\* The value a chain of reads and calls reaches from a global name.
RECURSIVE Reach(_, _)
Reach(v, steps) ==
  IF steps = <<>> THEN v ELSE Reach(Get(v, Head(steps)), Tail(steps))

\* The text of a value the script returned, as the executor hands it on.
TextOf(v) ==
  IF v = "hostProcess" THEN "[host process]"
  ELSE IF v \in {"primitive", "undefined"} THEN v
  ELSE "{}"

\* The reply of a script that settles without awaiting anything, by its kind, in
\* a context where `defined` names were assigned a function.
Settle(script, defined, at) ==
  CASE script.kind = "typeofProcess" ->
         [NoReply EXCEPT !.at = at,
            !.text = IF "process" \in defined THEN "function" ELSE "undefined"]
    [] script.kind = "callRequire" ->
         IF "require" \in defined
         THEN [NoReply EXCEPT !.at = at, !.text = "primitive"]
         ELSE [NoReply EXCEPT !.at = at, !.isError = TRUE,
                              !.message = "require is not a function"]
    [] script.kind = "probe" ->
         LET v == Reach(Lookup(script.name, defined), script.path)
         IN IF v = "TypeError"
            THEN [NoReply EXCEPT !.at = at, !.isError = TRUE,
                                 !.message = "Cannot read properties of undefined"]
            ELSE IF v = "ReferenceError"
            THEN [NoReply EXCEPT !.at = at, !.isError = TRUE,
                                 !.message = "name is not defined"]
            ELSE [NoReply EXCEPT !.at = at, !.text = TextOf(v)]
    [] OTHER -> [NoReply EXCEPT !.at = at, !.text = "undefined"]

\* The same call, in the context the previous call left behind.
ExecuteInOldContext(script) ==
  /\ Serving
  /\ sandbox.pc = "idle"
  /\ sandbox' = [sandbox EXCEPT !.pc = "sync", !.script = script, !.elapsed = 0,
                                !.left = script.sync1, !.timerAt = 0,
                                !.reached = "", !.reply = NoReply]
  /\ UNCHANGED nonSandboxVars
\* executor(code): createContext, then script.runInContext starts the script.
Execute(script) ==
  /\ Serving
  /\ sandbox.pc = "idle"
  /\ sandbox' = [IdleSandbox EXCEPT !.pc = "sync", !.script = script,
                                    !.left = script.sync1]
  /\ UNCHANGED nonSandboxVars

\* A tick passes while the script runs inside runInContext.
SyncTick ==
  /\ sandbox.pc = "sync"
  /\ sandbox.left > 0 \/ sandbox.script.loops1
  /\ sandbox.elapsed < TimeoutTicks
  /\ sandbox' = [sandbox EXCEPT !.elapsed = @ + 1,
                                !.left = IF @ > 0 THEN @ - 1 ELSE 0]
  /\ UNCHANGED nonSandboxVars

\* runInContext's timeout ends the script; the error is not an
\* ExecutionTimeoutError, so the catch wraps it in a CodeExecutionError.
SyncTimeout ==
  /\ sandbox.pc = "sync"
  /\ sandbox.left > 0 \/ sandbox.script.loops1
  /\ sandbox.elapsed >= TimeoutTicks
  /\ sandbox' = [sandbox EXCEPT !.pc = "replied",
                   !.reply = [NoReply EXCEPT !.isError = TRUE, !.at = sandbox.elapsed,
                                !.message = "Script execution timed out after 30000ms"]]
  /\ UNCHANGED nonSandboxVars

\* runInContext returns the script's promise; setTimeout arms the deadline timer
\* and Promise.race is awaited.  A script that awaits nothing has settled.
SyncReturn ==
  /\ sandbox.pc = "sync"
  /\ sandbox.left = 0 /\ ~sandbox.script.loops1
  /\ LET sc == sandbox.script
         awaits == sc.kind = "work" /\ (sc.wait > 0 \/ sc.never \/ sc.sync2 > 0 \/ sc.loops2)
     IN IF awaits
        THEN sandbox' = [sandbox EXCEPT !.pc = "race", !.left = sc.wait,
                                        !.timerAt = sandbox.elapsed + TimeoutTicks]
        ELSE sandbox' = [sandbox EXCEPT
               !.pc = "replied",
               !.defined = IF sc.kind = "assign" THEN @ \cup {sc.name} ELSE @,
               !.reached = IF sc.kind = "probe"
                           THEN Reach(Lookup(sc.name, sandbox.defined), sc.path) ELSE "",
               !.reply = Settle(sc, sandbox.defined, sandbox.elapsed)]
  /\ UNCHANGED nonSandboxVars

\* A tick passes while the script's promise is pending.
RaceTick ==
  /\ sandbox.pc = "race"
  /\ sandbox.left > 0 \/ sandbox.script.never
  /\ sandbox.elapsed < sandbox.timerAt
  /\ sandbox' = [sandbox EXCEPT !.elapsed = @ + 1,
                                !.left = IF @ > 0 THEN @ - 1 ELSE 0]
  /\ UNCHANGED nonSandboxVars

\* The deadline timer fires: Promise.race rejects with ExecutionTimeoutError.
TimerFires ==
  /\ sandbox.pc = "race"
  /\ sandbox.elapsed >= sandbox.timerAt
  /\ sandbox' = [sandbox EXCEPT !.pc = "replied",
                   !.reply = [NoReply EXCEPT !.isError = TRUE, !.at = sandbox.elapsed,
                                !.message = "Execution timeout (30000ms)"]]
  /\ UNCHANGED nonSandboxVars

\* What the script awaited has settled: its continuation takes the thread.
Resume ==
  /\ sandbox.pc = "race"
  /\ sandbox.left = 0 /\ ~sandbox.script.never
  /\ sandbox' = [sandbox EXCEPT !.pc = "micro", !.left = sandbox.script.sync2]
  /\ UNCHANGED nonSandboxVars

\* A tick passes while the continuation runs; no timer can fire meanwhile.
MicroTick ==
  /\ sandbox.pc = "micro"
  /\ sandbox.left > 0 \/ sandbox.script.loops2
  /\ sandbox' = IF sandbox.elapsed >= MaxElapsed
                THEN [sandbox EXCEPT !.pc = "hung"]
                ELSE [sandbox EXCEPT !.elapsed = @ + 1,
                                     !.left = IF @ > 0 THEN @ - 1 ELSE 0]
  /\ UNCHANGED nonSandboxVars

\* The continuation returns: the script's promise resolves and wins the race,
\* whether or not the timer is due.
MicroDone ==
  /\ sandbox.pc = "micro"
  /\ sandbox.left = 0 /\ ~sandbox.script.loops2
  /\ sandbox' = [sandbox EXCEPT !.pc = "replied",
                   !.reply = [NoReply EXCEPT !.at = sandbox.elapsed, !.text = "undefined"]]
  /\ UNCHANGED nonSandboxVars

\* The execute handler has sent the reply; the context of the call is kept
\* here only as long as nothing replaces it.
ReplyTaken ==
  /\ sandbox.pc = "replied"
  /\ sandbox' = [sandbox EXCEPT !.pc = "idle", !.script = NoScript, !.elapsed = 0,
                                !.left = 0, !.timerAt = 0, !.reached = "",
                                !.reply = NoReply]
  /\ UNCHANGED nonSandboxVars

\* The scripts: the two of the documented scenario, an assignment to a blocked
\* name, work with an optional infinite loop or a promise that never settles,
\* and chains of reads and calls from a global name.
WorkScripts ==
  {[NoScript EXCEPT !.kind = "work", !.sync1 = a, !.loops1 = l1, !.wait = w,
                    !.never = n, !.sync2 = b, !.loops2 = l2] :
     a \in 0..MaxWork, w \in 0..MaxWork, b \in 0..MaxWork,
     l1 \in BOOLEAN, n \in BOOLEAN, l2 \in BOOLEAN}
ProbeScripts ==
  {[NoScript EXCEPT !.kind = "probe", !.name = x, !.path = q] :
     x \in {"opensrc", "Promise", "cwd", "process", "require", "window"},
     q \in UNION {[1..k -> {"method", "constructor", "call"}] : k \in 0..(MaxPath - 1)}}
Scripts ==
  {[NoScript EXCEPT !.kind = "typeofProcess"], [NoScript EXCEPT !.kind = "callRequire"]}
    \cup {[NoScript EXCEPT !.kind = "assign", !.name = x] : x \in {"require", "process"}}
    \cup WorkScripts \cup ProbeScripts

\* ------------------------------------------------------------ module calls
\* What a call of a module function leaves alone.
nonLibVars == <<searchResp, access, sandbox, phase, ready, storeVars, engineVars,
                unhandledRejection, faults, registryVars, removing, vectorWorker>>

\* The caller has taken the result.
LibReturn ==
  /\ lib # NoCall
  /\ lib' = NoCall
  /\ UNCHANGED nonLibVars

RECURSIVE Concat(_)
Concat(ss) == IF ss = <<>> THEN <<>> ELSE Head(ss) \o Concat(Tail(ss))

\* ------------------------------------------------------------ vector/chunker
\* A TypeScript or Rust file is the sequence of its top-level nodes, each on
\* lines of its own: a class or an impl block has an opening line, a line for
\* each method and a closing line; a statement or a use declaration has one
\* line; every other declaration has two.  A Markdown file is the sequence of
\* its lines: a heading, a short text line, a line of more than twenty
\* characters, a blank line, a fence.  A file of any other extension is a
\* number of lines, all blank or none blank.
ItemLines(it) ==
  IF it.kind \in {"class", "impl_item"} THEN 2 + it.methods
  ELSE IF it.kind \in {"statement", "use_declaration"} THEN 1
  ELSE 2

RECURSIVE StartLine(_, _)
StartLine(items, i) ==
  IF i = 1 THEN 1 ELSE StartLine(items, i - 1) + ItemLines(items[i - 1])

EndLine(items, i) == StartLine(items, i) + ItemLines(items[i]) - 1

\* The chunk of the i-th node: getStartLineNumber .. getEndLineNumber.
extractNode(items, i, kind) ==
  [kind |-> kind, startLine |-> StartLine(items, i), endLine |-> EndLine(items, i)]

\* The chunks of the methods of the i-th node.
Methods(items, i) ==
  [j \in 1..items[i].methods |->
     [kind |-> "method", startLine |-> StartLine(items, i) + j,
      endLine |-> StartLine(items, i) + j]]

\* The chunks of the nodes of the kinds given, in file order.
NodesOf(items, kinds, kind) ==
  Concat([i \in 1..Len(items) |->
            IF items[i].kind \in kinds /\ items[i].named
            THEN <<extractNode(items, i, kind)>> ELSE <<>>])

\* TypeScriptChunker
extractFunctions(items) ==
  NodesOf(items, {"function"}, "function") \o NodesOf(items, {"arrow"}, "function")

extractClasses(items) ==
  Concat([i \in 1..Len(items) |->
            IF items[i].kind = "class" /\ items[i].named
            THEN <<extractNode(items, i, "class")>> \o Methods(items, i) ELSE <<>>])

extractTypes(items) ==
  NodesOf(items, {"interface"}, "interface") \o NodesOf(items, {"type"}, "type")
    \o NodesOf(items, {"enum"}, "enum")

TypeScriptChunker(items) ==
  extractFunctions(items) \o extractClasses(items) \o extractTypes(items)

\* RustChunker
extractImpl(items, i) == <<extractNode(items, i, "impl")>> \o Methods(items, i)

RustKind(type) ==
  CASE type = "function_item" -> "function"
    [] type = "struct_item" -> "struct"
    [] type = "enum_item" -> "enum"
    [] type = "trait_item" -> "trait"
    [] type = "mod_item" -> "mod"
    [] type = "macro_definition" -> "macro"
    [] OTHER -> ""

RustChunker(items) ==
  Concat([i \in 1..Len(items) |->
            IF items[i].kind = "impl_item" THEN extractImpl(items, i)
            ELSE IF RustKind(items[i].kind) # ""
            THEN <<extractNode(items, i, RustKind(items[i].kind))>>
            ELSE <<>>])

\* Markdown: the length of a line, and of lines a..b joined and trimmed.
LineLen(line) ==
  CASE line = "blank" -> 0
    [] line = "fence" -> 3
    [] line = "fence_js" -> 5
    [] line = "fence_info" -> 7
    [] line = "code" -> 25
    [] OTHER -> 5

NonBlank(lines, a, b) == {k \in a..b : lines[k] # "blank"}

RECURSIVE SumLen(_, _, _)
SumLen(lines, a, b) == IF a > b THEN 0 ELSE LineLen(lines[a]) + SumLen(lines, a + 1, b)

TrimLen(lines, a, b) ==
  LET nb == NonBlank(lines, a, b)
  IN IF nb = {} THEN 0
     ELSE LET f == CHOOSE k \in nb : \A m \in nb : k <= m
              l == CHOOSE k \in nb : \A m \in nb : k >= m
          IN SumLen(lines, f, l) + (l - f)

\* String.prototype.trim of joined lines: the blank lines at both ends go.
Trim(joined) ==
  LET nb == NonBlank(joined, 1, Len(joined))
  IN IF nb = {} THEN <<>>
     ELSE SubSeq(joined, CHOOSE k \in nb : \A m \in nb : k <= m,
                 CHOOSE k \in nb : \A m \in nb : k >= m)

\* A section that runs through the line of the next heading.
SectionThroughHeading(heading, startLine, endLine, content) ==
  [kind |-> "section", identifier |-> <<heading>>, startLine |-> startLine,
   endLine |-> endLine + 1, content |-> content]
\* The chunk chunkMarkdown pushes for a section; the content is its lines.
Section(heading, startLine, endLine, content) ==
  [kind |-> "section", identifier |-> <<heading>>, startLine |-> startLine,
   endLine |-> endLine, content |-> content]

\* extractSections: the loop at line i, with the start line of the current
\* section (0 when there is none) and the line where sectionLines begins.
RECURSIVE extractSections(_, _, _, _, _)
extractSections(lines, i, current, from, sections) ==
  IF i > Len(lines)
  THEN IF current # 0
       THEN IF TrimLen(lines, from, Len(lines)) > 0
            THEN Append(sections, Section("heading", current, Len(lines),
                                          Trim(SubSeq(lines, from, Len(lines)))))
            ELSE sections
       ELSE IF from <= Len(lines) /\ TrimLen(lines, from, Len(lines)) > 0
            THEN Append(sections, Section("preamble", 1, Len(lines),
                                          Trim(SubSeq(lines, from, Len(lines)))))
            ELSE sections
  ELSE IF lines[i] = "heading"
  THEN LET saved ==
             IF current # 0
             THEN IF TrimLen(lines, from, i - 1) > 0
                  THEN Append(sections, Section("heading", current, i - 1,
                                                Trim(SubSeq(lines, from, i - 1))))
                  ELSE sections
             ELSE IF from <= i - 1 /\ TrimLen(lines, from, i - 1) > 0
                  THEN Append(sections, Section("preamble", 1, i - 1,
                                                Trim(SubSeq(lines, from, i - 1))))
                  ELSE sections
       IN extractSections(lines, i + 1, i, i, saved)
  ELSE extractSections(lines, i + 1, current, from, sections)

\* fenceRegex = /^```(\w*)$/ matches the line; and line.startsWith("```").
fenceRegex(line) == line \in {"fence", "fence_js"}
startsWithFence(line) == line \in {"fence", "fence_js", "fence_info"}

\* blockLang = match[1] || "code"
blockLang(line) == IF line = "fence_js" THEN "js" ELSE "code"

\* extractCodeBlocks: the loop at line i; blockStart is the line of the opening
\* fence, 0 outside a block.  The content is built from blockLang and the
\* trimmed lines of the body.
RECURSIVE extractCodeBlocks(_, _, _, _)
extractCodeBlocks(lines, i, blockStart, chunkList) ==
  IF i > Len(lines) THEN chunkList
  ELSE IF fenceRegex(lines[i]) /\ blockStart = 0
  THEN extractCodeBlocks(lines, i + 1, i, chunkList)
  ELSE IF startsWithFence(lines[i]) /\ blockStart # 0
  THEN extractCodeBlocks(lines, i + 1, 0,
         IF TrimLen(lines, blockStart + 1, i - 1) > 20
         THEN Append(chunkList,
                [kind |-> "codeblock",
                 identifier |-> <<"codeblock", blockLang(lines[blockStart]), blockStart>>,
                 startLine |-> blockStart, endLine |-> i,
                 content |-> <<IF blockLang(lines[blockStart]) = "js" THEN "fence_js"
                               ELSE "fence_code">>
                               \o Trim(SubSeq(lines, blockStart + 1, i - 1))
                               \o <<"fence">>])
         ELSE chunkList)
  ELSE extractCodeBlocks(lines, i + 1, blockStart, chunkList)

chunkMarkdown(lines) ==
  extractSections(lines, 1, 0, 1, <<>>) \o extractCodeBlocks(lines, 1, 0, <<>>)

\* The loop without the break after the window that reaches the last line.
RECURSIVE fallbackChunkNoBreak(_, _, _)
fallbackChunkNoBreak(lines, i, chunkList) ==
  IF i >= Len(lines) THEN chunkList
  ELSE LET end == Min(i + WINDOW_SIZE, Len(lines))
           chunkContent == Trim(SubSeq(lines, i + 1, end))
       IN IF chunkContent = <<>>
          THEN fallbackChunkNoBreak(lines, i + (WINDOW_SIZE - OVERLAP), chunkList)
          ELSE fallbackChunkNoBreak(lines, i + (WINDOW_SIZE - OVERLAP),
                 Append(chunkList,
                   [kind |-> "unknown", identifier |-> <<"lines", i + 1, end>>,
                    startLine |-> i + 1, endLine |-> end, content |-> chunkContent]))

\* fallbackChunk: the loop at offset i over the lines.
RECURSIVE fallbackChunk(_, _, _)
fallbackChunk(lines, i, chunkList) ==
  IF i >= Len(lines) THEN chunkList
  ELSE LET end == Min(i + WINDOW_SIZE, Len(lines))
           chunkContent == Trim(SubSeq(lines, i + 1, end))
       IN IF chunkContent = <<>>
          THEN fallbackChunk(lines, i + (WINDOW_SIZE - OVERLAP), chunkList)
          ELSE LET pushed == Append(chunkList,
                               [kind |-> "unknown",
                                identifier |-> <<"lines", i + 1, end>>,
                                startLine |-> i + 1, endLine |-> end,
                                content |-> chunkContent])
               IN IF end >= Len(lines) THEN pushed
                  ELSE fallbackChunk(lines, i + (WINDOW_SIZE - OVERLAP), pushed)

\* chunk(file, content): the strategy by the extension.
chunk(file) ==
  CASE file.ext = "ts" -> TypeScriptChunker(file.items)
    [] file.ext = "rs" -> RustChunker(file.items)
    [] file.ext = "md" -> chunkMarkdown(file.lines)
    [] OTHER -> fallbackChunk(file.lines, 0, <<>>)

\* The files.
SeqsUpTo(S, n) == UNION {[1..k -> S] : k \in 0..n}
TsItems ==
  {[kind |-> k, named |-> TRUE, methods |-> 0] :
     k \in {"function", "arrow", "interface", "type", "enum"}}
    \cup {[kind |-> "function", named |-> FALSE, methods |-> 0],
          [kind |-> "statement", named |-> FALSE, methods |-> 0]}
    \cup {[kind |-> "class", named |-> b, methods |-> m] : b \in BOOLEAN, m \in 0..1}
RustItems ==
  {[kind |-> k, named |-> TRUE, methods |-> 0] :
     k \in {"function_item", "struct_item", "enum_item", "trait_item", "mod_item",
            "macro_definition", "use_declaration"}}
    \cup {[kind |-> "impl_item", named |-> TRUE, methods |-> m] : m \in 0..1}
MdLines == {"heading", "text", "code", "blank", "fence", "fence_js", "fence_info"}

\* A text file is runs of blank and of other lines.
RunLengths == {1, OVERLAP, WINDOW_SIZE - OVERLAP, WINDOW_SIZE}
RECURSIVE Expand(_)
Expand(runs) ==
  IF runs = <<>> THEN <<>>
  ELSE [k \in 1..Head(runs).len |-> IF Head(runs).blank THEN "blank" ELSE "text"]
         \o Expand(Tail(runs))
TxtLines ==
  {Expand(runs) : runs \in SeqsUpTo([blank : BOOLEAN, len : RunLengths], MaxRuns) \ {<<>>}}
SourceFiles ==
  {[ext |-> "ts", items |-> q] : q \in SeqsUpTo(TsItems, MaxItems)}
    \cup {[ext |-> "rs", items |-> q] : q \in SeqsUpTo(RustItems, MaxItems)}
    \cup {[ext |-> "md", lines |-> q] : q \in SeqsUpTo(MdLines, MaxLines) \ {<<>>}}
    \cup {[ext |-> "txt", lines |-> q] : q \in TxtLines}

\* chunkFiles for one file: an unreadable file is skipped.
chunkFiles ==
  /\ lib = NoCall
  /\ \E file \in SourceFiles, readable \in BOOLEAN :
       lib' = [op |-> "chunkFiles", input |-> [file |-> file, readable |-> readable],
               output |-> IF readable THEN chunk(file) ELSE <<>>]
  /\ UNCHANGED nonLibVars

\* ------------------------------------------------------------- readSources
\* opensrcListSources: what the opensrc library lists.  The library is not part
\* of this source; it lists a package once per registry and name, and a repo
\* once per name.
Registries == {"npm", "pypi", "crates"}
PackageNames == {"foo", "bar"}
RepoNames == {"github.com/o/foo", "github.com/o/bar"}
Distinct(q) == \A i, j \in DOMAIN q : i # j => q[i] # q[j]
Listings ==
  {[packages |-> ps, repos |-> rs] :
     ps \in {q \in SeqsUpTo([registry : Registries, name : PackageNames], MaxSpecs) :
               Distinct(q)},
     rs \in SeqsUpTo(RepoNames, 1)}

\* readSources: a Source for every package, then a Source for every repo.
readSources(listing) ==
  /\ lib = NoCall
  /\ lib' = [op |-> "readSources", input |-> listing,
             output |-> [i \in DOMAIN listing.packages |->
                           [type |-> listing.packages[i].registry,
                            name |-> listing.packages[i].name]]
                        \o [i \in DOMAIN listing.repos |->
                              [type |-> "repo", name |-> listing.repos[i]]]]
  /\ UNCHANGED nonLibVars

\* ---------------------------------------------------- db.ts: searchChunks SQL
\* The chunks table of a scan: row id i has a source and a distance to the
\* query vector (in hundredths).
Tables == UNION {[1..n -> [source : {"a", "b"}, distance : {10, 20}]] : n \in 1..MaxRows}

\* vector_quantize_scan(..., k): the k nearest rows; among rows of equal
\* distance at the cut, any.
vector_quantize_scan(rows, k) ==
  {C \in SUBSET DOMAIN rows :
     /\ Cardinality(C) = Min(k, Len(rows))
     /\ \A i \in C, j \in (DOMAIN rows) \ C : rows[i].distance <= rows[j].distance}

\* ORDER BY v.distance ASC LIMIT n over the row ids in F: the first n rows of
\* an ordering by distance; SQL leaves the order of rows of equal distance open.
OrderByDistanceLimit(rows, F, n) ==
  {r \in SeqsUpTo(F, n) :
     /\ Len(r) = Min(n, Cardinality(F))
     /\ Distinct(r)
     /\ \A i, j \in DOMAIN r : i < j => rows[r[i]].distance <= rows[r[j]].distance
     /\ \A i \in DOMAIN r, k \in F \ Range(r) : rows[r[i]].distance <= rows[k].distance}

\* The results searchChunks can return for a source filter and topK.
searchChunksSql(rows, filter, topK) ==
  IF filter # {}
  THEN UNION {OrderByDistanceLimit(rows, {i \in C : rows[i].source \in filter}, topK) :
                C \in vector_quantize_scan(rows, topK * 2)}
  ELSE UNION {OrderByDistanceLimit(rows, C, topK) : C \in vector_quantize_scan(rows, topK)}

\* searchChunks(db, queryEmbedding, {sources, topK}) returns the row ids r.
scan(rows, filter, topK, r) ==
  /\ lib = NoCall
  /\ r \in searchChunksSql(rows, filter, topK)
  /\ lib' = [op |-> "scan", input |-> [rows |-> rows, sources |-> filter, topK |-> topK],
             output |-> r]
  /\ UNCHANGED nonLibVars

\* ------------------------------------------------------------ api: grep loops
\* A file of a grep: its number of lines, which of them the pattern matches
\* (all, or the even ones), and whether readFile succeeds.
GrepFiles ==
  {[n |-> n, hits |-> h, readable |-> TRUE] : n \in {2, LongFile}, h \in {"all", "even"}}
    \cup {[n |-> 2, hits |-> "all", readable |-> FALSE]}

\* regex.test(lines[i])
Matches(file, i) == file.hits = "all" \/ i % 2 = 0

\* What a grep has done so far: its results, the last line it tested, the
\* files it read and the sources it listed.
NoGrep == [results |-> <<>>, tested |-> <<>>, opened |-> 0, globbed |-> 0]

\* The loop over the lines of a file that stops one result late.
RECURSIVE grepLinesBreakLate(_, _, _, _, _, _)
grepLinesBreakLate(file, s, f, i, acc, maxResults) ==
  IF i > file.n THEN acc
  ELSE LET seen == [acc EXCEPT !.tested = <<s, f, i>>]
       IN IF Matches(file, i)
          THEN LET pushed == [seen EXCEPT !.results = Append(@, <<s, f, i>>)]
               IN IF Len(pushed.results) > maxResults THEN pushed
                  ELSE grepLinesBreakLate(file, s, f, i + 1, pushed, maxResults)
          ELSE grepLinesBreakLate(file, s, f, i + 1, seen, maxResults)
\* The loop over the lines of file f of source s, at line i.
RECURSIVE grepLines(_, _, _, _, _, _)
grepLines(file, s, f, i, acc, maxResults) ==
  IF i > file.n THEN acc
  ELSE LET seen == [acc EXCEPT !.tested = <<s, f, i>>]
       IN IF Matches(file, i)
          THEN LET pushed == [seen EXCEPT !.results = Append(@, <<s, f, i>>)]
               IN IF Len(pushed.results) >= maxResults THEN pushed
                  ELSE grepLines(file, s, f, i + 1, pushed, maxResults)
          ELSE grepLines(file, s, f, i + 1, seen, maxResults)

\* The loop over the files of source s, at file f; a file that cannot be read
\* is skipped.
RECURSIVE grepFiles(_, _, _, _, _)
grepFiles(files, s, f, acc, maxResults) ==
  IF f > Len(files) \/ Len(acc.results) >= maxResults THEN acc
  ELSE LET opened == [acc EXCEPT !.opened = @ + 1]
       IN grepFiles(files, s, f + 1,
            IF files[f].readable THEN grepLines(files[f], s, f, 1, opened, maxResults)
            ELSE opened,
            maxResults)

\* The loop over the sources, at source s.
RECURSIVE grepSources(_, _, _, _)
grepSources(tree, s, acc, maxResults) ==
  IF s > Len(tree) \/ Len(acc.results) >= maxResults THEN acc
  ELSE grepSources(tree, s + 1,
         grepFiles(tree[s], s, 1, [acc EXCEPT !.globbed = @ + 1], maxResults),
         maxResults)

\* grep(pattern, options) over the sources the filter keeps; options.maxResults
\* is <<>> when the caller gives none.
grep(tree, options) ==
  /\ lib = NoCall
  /\ LET maxResults == IF options = <<>> THEN DEFAULT_MAX_RESULTS ELSE options[1]
     IN lib' = [op |-> "grep", input |-> [tree |-> tree, maxResults |-> maxResults],
                output |-> grepSources(tree, 1, NoGrep, maxResults)]
  /\ UNCHANGED nonLibVars

GrepTrees == SeqsUpTo(SeqsUpTo(GrepFiles, MaxGrep), MaxGrep)

\* ------------------------------------------------------------ semanticSearch
getIndexingSources == indexingInProgress

\* SELECT 1 FROM chunks LIMIT 1
hasData == \E s \in Sources : Len(chunks[s]) > 0

\* searchChunks: the rows the scan can return, each row of the quantized index
\* whose source passes the filter (an empty filter passes every source).
searchChunks(filter) ==
  UNION {{[source |-> s, lo |-> chunks[s][i].lo, hi |-> chunks[s][i].hi] :
            i \in 1..quantized[s]} :
         s \in IF filter = {} THEN Sources ELSE filter}

\* The rows an indexing run writes for a source, one range per batch.
BatchRanges(s) ==
  {[source |-> s, lo |-> k * BATCH_SIZE + 1, hi |-> Min((k + 1) * BATCH_SIZE, NumChunks(s))] :
     k \in 0..((NumChunks(s) - 1) \div BATCH_SIZE)}

\* The search whose early rejection carries an empty sources list.
searchEmptyList(opt, hit) ==
  IF ~ready
  THEN [opt |-> opt, error |-> "not_indexed", sources |-> {}, hit |-> NoHit]
  ELSE IF ~hasData
  THEN IF getIndexingSources # {}
       THEN [opt |-> opt, error |-> "indexing", sources |-> getIndexingSources, hit |-> NoHit]
       ELSE [opt |-> opt, error |-> "not_indexed", sources |-> {}, hit |-> NoHit]
  ELSE IF opt # {} /\ opt \cap indexingInProgress # {}
  THEN [opt |-> opt, error |-> "indexing", sources |-> opt \cap indexingInProgress,
        hit |-> NoHit]
  ELSE IF opt # {} /\ {s \in opt : ~isIndexed(indexed_sources, s)} # {}
  THEN [opt |-> opt, error |-> "not_indexed",
        sources |-> {s \in opt : ~isIndexed(indexed_sources, s)}, hit |-> NoHit]
  ELSE [opt |-> opt, error |-> "none", sources |-> {}, hit |-> hit]
\* search(query, {sources: opt}): the response, `hit` being one row of the
\* result list (NoHit: the list is empty).
search(opt, hit) ==
  IF ~ready
  THEN [opt |-> opt, error |-> "not_indexed", sources |-> opt, hit |-> NoHit]
  ELSE IF ~hasData
  THEN IF getIndexingSources # {}
       THEN [opt |-> opt, error |-> "indexing", sources |-> getIndexingSources, hit |-> NoHit]
       ELSE [opt |-> opt, error |-> "not_indexed", sources |-> opt, hit |-> NoHit]
  ELSE IF opt # {} /\ opt \cap indexingInProgress # {}
  THEN [opt |-> opt, error |-> "indexing", sources |-> opt \cap indexingInProgress,
        hit |-> NoHit]
  ELSE IF opt # {} /\ {s \in opt : ~isIndexed(indexed_sources, s)} # {}
  THEN [opt |-> opt, error |-> "not_indexed",
        sources |-> {s \in opt : ~isIndexed(indexed_sources, s)}, hit |-> NoHit]
  ELSE [opt |-> opt, error |-> "none", sources |-> {}, hit |-> hit]

\* semanticSearch(query, {sources: opt}) returns.
Search(opt, hit) ==
  /\ Serving
  /\ hit \in searchChunks(opt) \cup {NoHit}
  /\ search(opt, NoHit).error # "none" => hit = NoHit
  /\ searchResp' = search(opt, hit)
  /\ UNCHANGED <<fileVars, phase, ready, storeVars, engineVars, unhandledRejection, faults,
                 registryVars>>

\* The caller takes the response.
SearchReturn ==
  /\ searchResp # NoResp
  /\ searchResp' = NoResp
  /\ UNCHANGED <<fileVars, phase, ready, storeVars, engineVars, unhandledRejection, faults,
                 registryVars>>

\* Every row a search can return, and the empty result.
Hits == {NoHit} \cup UNION {BatchRanges(s) : s \in Sources}

\* ------------------------------------------------------------------- Next
Outcomes == {"ok", "finalizeErr", "markThrows"}

\* The steps of the indexing engine.
EngineStep ==
  \/ \E s \in Sources : GlobDone(s)
  \/ \E s \in Sources, o \in Outcomes : ReadChunks(s, o)
  \/ \E s \in Sources, o \in Outcomes : EmbedInsertOk(s, o)
  \/ \E s \in Sources : YieldDone(s)

\* The failures of an indexing run.
EngineFault ==
  \/ \E s \in Sources : GlobThrows(s)
  \/ \E s \in Sources : InsertErr(s)
  \/ \E s \in Sources : EmbedThrows(s)

\* The indexing engine under failures, fed by fetch and remove of one source.
Next ==
  \/ MainVectorOk
  \/ MainVectorErr
  \/ EngineStep
  \/ EngineFault
  \/ \E how \in {"fulfilled", "rejected"} : FinallyCallback(how)
  \/ \E s \in Sources : FetchCommand(<<s>>, {s})
  \/ FetchReturn
  \/ FetchTaken
  \/ \E s \in Sources : Remove({s}, {s})

Spec == Init /\ [][Next]_vars

\* The indexing engine under failures, fed by startup and by fetch alone.
NextEngine ==
  \/ MainVectorOk
  \/ MainVectorErr
  \/ EngineStep
  \/ EngineFault
  \/ \E how \in {"fulfilled", "rejected"} : FinallyCallback(how)
  \/ \E s \in Sources : FetchCommand(<<s>>, {s})
  \/ FetchReturn
  \/ FetchTaken

SpecEngine == Init /\ [][NextEngine]_vars

\* The scheduler with more sources than it runs at a time plus one: the data
\* root lists four sources when the server starts.
MoreSources == Sources \cup {"d"}

InitQueue ==
  /\ phase = "boot"
  /\ ready = FALSE
  /\ indexed_sources = {}
  /\ chunks = [s \in MoreSources |-> <<>>]
  /\ quantized = [s \in MoreSources |-> 0]
  /\ indexingInProgress = {}
  /\ activeIndexCount = 0
  /\ indexQueue = <<>>
  /\ task = [s \in MoreSources |-> IdleTask]
  /\ settled = [fulfilled |-> 0, rejected |-> 0]
  /\ unhandledRejection = FALSE
  /\ faults = MaxFaults
  /\ sources = {}
  /\ manifest = MoreSources
  /\ disk = manifest
  /\ fetching = NoFetch
  /\ searchResp = NoResp
  /\ access = NoAccess
  /\ sandbox = IdleSandbox
  /\ lib = NoCall
  /\ removing = {}
  /\ vectorWorker = IdleClient

NextQueue ==
  \/ MainVectorOk
  \/ \E s \in MoreSources : GlobDone(s)
  \/ \E s \in MoreSources, o \in Outcomes : ReadChunks(s, o)
  \/ \E s \in MoreSources, o \in Outcomes : EmbedInsertOk(s, o)
  \/ \E s \in MoreSources : YieldDone(s)
  \/ \E s \in MoreSources : GlobThrows(s)
  \/ \E s \in MoreSources : InsertErr(s)
  \/ \E s \in MoreSources : EmbedThrows(s)
  \/ \E how \in {"fulfilled", "rejected"} : FinallyCallback(how)

SpecQueue == InitQueue /\ [][NextQueue]_vars

\* The event loop runs a callback that is ready.
LiveQueue == SpecQueue /\ WF_vars(NextQueue)

\* Search against the engine and the registry; no failure is injected.
InitSearch ==
  /\ phase = "boot"
  /\ ready = FALSE
  /\ indexed_sources = {}
  /\ chunks = [s \in Sources |-> <<>>]
  /\ quantized = [s \in Sources |-> 0]
  /\ indexingInProgress = {}
  /\ activeIndexCount = 0
  /\ indexQueue = <<>>
  /\ task = [s \in Sources |-> IdleTask]
  /\ settled = [fulfilled |-> 0, rejected |-> 0]
  /\ unhandledRejection = FALSE
  /\ faults = 0
  /\ sources = {}
  /\ manifest \in Manifests
  /\ disk = manifest
  /\ fetching = NoFetch
  /\ searchResp = NoResp
  /\ access = NoAccess
  /\ sandbox = IdleSandbox
  /\ lib = NoCall
  /\ removing = {}
  /\ vectorWorker = IdleClient

NextSearch ==
  \/ MainVectorOk
  \/ MainVectorErr
  \/ EngineStep
  \/ FinallyCallback("fulfilled")
  \/ \E s \in Sources : FetchCommand(<<s>>, {s})
  \/ FetchReturn
  \/ FetchTaken
  \/ \E s \in Sources : Remove({s}, {s})
  \/ \E options \in {{}, {"packages"}, {"repos"}} : Clean(options, toRemove(options))
  \/ \E opt \in SUBSET Sources, hit \in Hits : Search(opt, hit)
  \/ SearchReturn

SpecSearch == InitSearch /\ [][NextSearch]_vars

\* Fetch calls of several specs, some of which fail, against the engine.
NextFetch ==
  \/ MainVectorOk
  \/ MainVectorErr
  \/ EngineStep
  \/ FinallyCallback("fulfilled")
  \/ \E specs \in FetchSpecs, ok \in SUBSET Sources : FetchCommand(specs, ok)
  \/ FetchReturn
  \/ FetchTaken

SpecFetch == InitSearch /\ [][NextFetch]_vars

\* The engine and a fetch of one source, until a signal ends the process.
NextShutdown ==
  \/ MainVectorOk
  \/ MainVectorErr
  \/ EngineStep
  \/ FinallyCallback("fulfilled")
  \/ \E s \in Sources : FetchCommand(<<s>>, {s})
  \/ FetchReturn
  \/ FetchTaken
  \/ ShutdownSignal
  \/ ShutdownExit

SpecShutdown == InitSearch /\ [][NextShutdown]_vars

\* The functions of the modules, one call at a time, from the state after
\* construction.
InitLib == Init /\ manifest = {}

\* The chunker over the files.
NextChunker ==
  \/ chunkFiles
  \/ LibReturn

SpecChunker == InitLib /\ [][NextChunker]_vars

\* readSources over the listings of the library.
NextReadSources ==
  \/ \E listing \in Listings : readSources(listing)
  \/ LibReturn

SpecReadSources == InitLib /\ [][NextReadSources]_vars

\* grep over the trees and the caps.
NextGrep ==
  \/ \E tree \in GrepTrees, options \in {<<>>, <<0>>, <<1>>, <<3>>} : grep(tree, options)
  \/ LibReturn

SpecGrep == InitLib /\ [][NextGrep]_vars

\* searchChunks over the tables, filters and topK.
NextScan ==
  \/ \E rows \in Tables, filter \in SUBSET {"a", "b"}, topK \in 1..MaxTopK,
        r \in SeqsUpTo(1..MaxRows, MaxTopK) : scan(rows, filter, topK, r)
  \/ LibReturn

SpecScan == InitLib /\ [][NextScan]_vars

\* The executor alone: one script at a time.
NextSandbox ==
  \/ MainVectorErr
  \/ \E script \in Scripts : Execute(script)
  \/ SyncTick
  \/ SyncTimeout
  \/ SyncReturn
  \/ RaceTick
  \/ TimerFires
  \/ Resume
  \/ MicroTick
  \/ MicroDone
  \/ ReplyTaken

SpecSandbox == Init /\ [][NextSandbox]_vars

\* The file API against the registry; the vector store failed to open.
NextFiles ==
  \/ MainVectorErr
  \/ \E s \in Sources : FetchCommand(<<s>>, {s})
  \/ FetchReturn
  \/ FetchTaken
  \/ \E s \in Sources : Remove({s}, {s})
  \/ \E s \in Sources, p \in PathInputs : Read(s, p)
  \/ \E s \in Sources, paths \in PathLists : ReadMany(s, paths)
  \/ \E s \in Sources, glob \in GlobInputs : Files(s, glob)
  \/ \E s \in Sources, glob \in GlobInputs : Tree(s, glob)
  \/ \E s \in Sources, glob \in GlobInputs : Grep(s, glob)
  \/ \E s \in Sources, glob \in GlobInputs : AstGrep(s, glob)
  \/ AccessReturn

SpecFiles == Init /\ [][NextFiles]_vars

\* fetch, remove and clean calls, remove calls that overlap; the vector store
\* failed to open.
NextRegistry ==
  \/ MainVectorErr
  \/ \E s \in Sources : FetchCommand(<<s>>, {s})
  \/ FetchReturn
  \/ FetchTaken
  \/ \E s \in Sources, gone \in SUBSET Sources : RemoveStart({s}, gone)
  \/ RemoveFinish
  \/ \E options \in {{}, {"packages"}, {"repos"}}, done \in BOOLEAN :
        Clean(options, IF done THEN toRemove(options) ELSE {})

SpecRegistry == Init /\ [][NextRegistry]_vars

\* ------------------------------------------------------------------ truncate
MAX_TOKENS == 8000
CHARS_PER_TOKEN == 4

\* The lengths of the texts around a threshold.
Window == 20

\* The decimal digits of n.
RECURSIVE Decimal(_)
Decimal(n) ==
  LET Digit(d) == <<"0", "1", "2", "3", "4", "5", "6", "7", "8", "9">>[d + 1]
  IN IF n < 10 THEN Digit(n) ELSE Decimal(n \div 10) \o Digit(n % 10)

\* Number.prototype.toLocaleString(): groups of three digits, "," between them.
RECURSIVE toLocaleString(_)
toLocaleString(n) ==
  IF n < 1000 THEN Decimal(n)
  ELSE toLocaleString(n \div 1000) \o ","
         \o Decimal((n % 1000) \div 100) \o Decimal((n % 100) \div 10) \o Decimal(n % 10)

\* A text is the number of chars kept of the content and the pieces appended.
\* truncate(content): a string is taken as it is, any other value as its JSON
\* text; content.chars is the length of that text.
truncate(content) ==
  LET text == content.chars
      maxChars == MAX_TOKENS * CHARS_PER_TOKEN
      estimatedTokens == (text + CHARS_PER_TOKEN - 1) \div CHARS_PER_TOKEN
  IN IF text <= maxChars THEN [kept |-> text, footer |-> <<>>]
     ELSE [kept |-> maxChars,
           footer |-> <<"\n\n", "--- TRUNCATED ---", "\nResponse was ~",
                        toLocaleString(estimatedTokens), " tokens (limit: ",
                        toLocaleString(MAX_TOKENS),
                        ").\nUse opensrc.files() to find specific files, then opensrc.read() for targeted content.">>]

\* The tool handler truncates the result of the call.
Truncate(content) ==
  /\ lib = NoCall
  /\ lib' = [op |-> "truncate", input |-> content, output |-> truncate(content)]
  /\ UNCHANGED nonLibVars

\* Results: short ones, and those around the limit and around the lengths where
\* the token estimate gains a digit.
Contents ==
  LET around(n) == (n - Window)..(n + Window)
      chars == (0..Window) \cup around(MAX_TOKENS * CHARS_PER_TOKEN)
                 \cup around(10000 * CHARS_PER_TOKEN)
                 \cup around(100000 * CHARS_PER_TOKEN) \cup around(1000000)
  IN {[type |-> ty, chars |-> n] : ty \in {"string", "object"}, n \in chars}

NextTruncate ==
  \/ \E content \in Contents : Truncate(content)
  \/ LibReturn

SpecTruncate == InitLib /\ [][NextTruncate]_vars

\* ------------------------------------------------------------- execute reply
\* JSON.stringify(content, null, 2) by the type of the value: a JSON text, the
\* value undefined (undefined, a function, a symbol), or a thrown TypeError (a
\* BigInt, a circular structure).
JSONstringify(content) ==
  CASE content.type \in {"object", "number"} -> "text"
    [] content.type \in {"undefined", "function"} -> "undefined"
    [] OTHER -> "TypeError"

\* What the handler of the execute tool gives for a result of the executor: the
\* reply it returns, or the error it throws out of truncate: reading `.length`
\* of undefined, or the error thrown by JSON.stringify.
executeHandler(result) ==
  IF result.ok
  THEN IF result.value.type = "string" \/ JSONstringify(result.value) = "text"
       THEN [thrown |-> FALSE, isError |-> FALSE, text |-> truncate(result.value)]
       ELSE [thrown |-> TRUE, isError |-> FALSE, text |-> <<>>]
  ELSE [thrown |-> FALSE, isError |-> TRUE, text |-> <<"Error: ", result.message>>]

\* tools/call execute, from the result of the executor to the handler's return.
ExecuteTool(result) ==
  /\ lib = NoCall
  /\ lib' = [op |-> "execute", input |-> result, output |-> executeHandler(result)]
  /\ UNCHANGED nonLibVars

\* The results of the executor: Ok of the values a script can return, Err of an
\* execution error or the timeout.
ExecutorResults ==
  {[ok |-> TRUE, value |-> content, message |-> ""] : content \in Contents}
    \cup {[ok |-> TRUE, value |-> [type |-> ty, chars |-> 0], message |-> ""] :
            ty \in {"number", "undefined", "function", "bigint", "circular"}}
    \cup {[ok |-> FALSE, value |-> [type |-> "undefined", chars |-> 0], message |-> m] :
            m \in {"", "x is not defined", "Execution timed out after 30000ms"}}

NextExecute ==
  \/ \E result \in ExecutorResults : ExecuteTool(result)
  \/ LibReturn

SpecExecute == InitLib /\ [][NextExecute]_vars

\* ------------------------------------------- the worker-based vector module
\* The delay of the timer of a search call, in milliseconds and in ticks.
SEARCH_TIMEOUT_MS == 30000
SearchTicks == SEARCH_TIMEOUT_MS \div TickMs

nonWorkerVars == <<searchResp, access, sandbox, lib, removing, phase, ready, storeVars,
                   engineVars, unhandledRejection, faults, registryVars>>

\* A call of the resolve or reject function of the promise of call id: the
\* first call settles the promise, a later one has no effect on it.
settle(v, id, how) ==
  [v EXCEPT !.outcome[id] = IF @ = "none" THEN how ELSE @,
            !.calls[id] = @ + 1,
            !.waited[id] = IF v.outcome[id] = "none" THEN v.timer[id] ELSE @]

\* The resolve function stored in the pending map: clearTimeout, then resolve.
pendingResolve(v, id, r) ==
  [settle(v, id, r) EXCEPT !.timer[id] = NoTimer]

\* search(): without a ready worker it resolves with not_indexed at once;
\* otherwise it sets the timer, stores the entry and posts the search message.
searchViaWorker(v) ==
  LET id == v.nextId
  IN IF ~v.worker \/ ~v.ready
     THEN [settle(v, id, "not_indexed") EXCEPT !.nextId = @ + 1]
     ELSE [v EXCEPT !.nextId = @ + 1, !.timer[id] = 0,
                    !.pending = @ \cup {id}, !.toWorker = @ \cup {id}]

\* The callback of the timer of call id: pending.delete, reject.  The timer has
\* fired and is no longer active.
onTimeout(v, id) ==
  [settle(v, id, "timeout") EXCEPT !.pending = @ \ {id}, !.timer[id] = NoTimer]

\* The "results" case of the message handler that leaves the entry in the map.
onResultsKeepsEntry(v, msg) ==
  IF msg.id \in v.pending
  THEN pendingResolve(v, msg.id, IF msg.error # "" THEN msg.error ELSE "results")
  ELSE [v EXCEPT !.ignored = @ + 1]
\* The "results" case of the message handler: the entry of the id, if there is
\* one, is resolved with the error or with the results, and deleted.
onResults(v, msg) ==
  IF msg.id \in v.pending
  THEN [pendingResolve(v, msg.id, IF msg.error # "" THEN msg.error ELSE "results")
          EXCEPT !.pending = @ \ {msg.id}]
  ELSE [v EXCEPT !.ignored = @ + 1]

\* The message handler of the main thread for a message of the worker; the
\* "error" case of a ready module only logs.
onMessage(v, msg) ==
  IF msg.type = "results" THEN onResults(v, msg)
  ELSE [v EXCEPT !.logged = TRUE]

\* initVector(): no worker yet, a new one is started and sent "init".
InitVector ==
  /\ ~vectorWorker.worker
  /\ vectorWorker' = [vectorWorker EXCEPT !.worker = TRUE, !.ready = FALSE]
  /\ UNCHANGED nonWorkerVars

\* The worker has opened the store and loaded the embedder: message "ready".
WorkerReady ==
  /\ vectorWorker.worker /\ ~vectorWorker.ready
  /\ vectorWorker' = [vectorWorker EXCEPT !.ready = TRUE]
  /\ UNCHANGED nonWorkerVars

\* A caller calls search().
SearchCall ==
  /\ vectorWorker.nextId <= MaxSearches
  /\ vectorWorker' = searchViaWorker(vectorWorker)
  /\ UNCHANGED nonWorkerVars

\* handleSearch in the worker: it posts the results, the typed error
\* not_indexed, or, when the embedder or the scan throws, an "error" message
\* that carries no id.
HandleSearch(id, reply) ==
  /\ id \in vectorWorker.toWorker
  /\ vectorWorker' =
       [vectorWorker EXCEPT
          !.toWorker = @ \ {id},
          !.toMain = @ \cup {CASE reply = "results" -> [type |-> "results", id |-> id, error |-> ""]
                               [] reply = "not_indexed" ->
                                    [type |-> "results", id |-> id, error |-> "not_indexed"]
                               [] OTHER -> [type |-> "error", id |-> 0, error |-> "thrown"]}]
  /\ UNCHANGED nonWorkerVars

\* The main thread handles one message of the worker.
WorkerMessage ==
  /\ vectorWorker.toMain # {}
  /\ \E msg \in vectorWorker.toMain :
       vectorWorker' = [onMessage(vectorWorker, msg) EXCEPT !.toMain = @ \ {msg}]
  /\ UNCHANGED nonWorkerVars

\* The "error" event of the worker: logged, and reject of the init promise.
WorkerError ==
  /\ vectorWorker.worker
  /\ vectorWorker' = [vectorWorker EXCEPT !.logged = TRUE]
  /\ UNCHANGED nonWorkerVars

\* The "exit" event of the worker: worker, ready and initPromise are reset.
\* The messages the worker had not handled are gone with it; those it had
\* posted may still be delivered.
WorkerExit ==
  /\ vectorWorker.worker
  /\ vectorWorker' = [vectorWorker EXCEPT !.worker = FALSE, !.ready = FALSE,
                                          !.toWorker = {}]
  /\ UNCHANGED nonWorkerVars

\* One tick passes; a timer that is due fires before the next tick.
ClockTick ==
  /\ \E id \in Ids : vectorWorker.timer[id] # NoTimer
  /\ \A id \in Ids : vectorWorker.timer[id] < SearchTicks
  /\ vectorWorker' =
       [vectorWorker EXCEPT
          !.timer = [id \in Ids |-> IF @[id] = NoTimer THEN NoTimer ELSE @[id] + 1]]
  /\ UNCHANGED nonWorkerVars

\* The timer of a call fires.
SearchTimeout ==
  /\ \E id \in Ids : vectorWorker.timer[id] = SearchTicks
  /\ \E id \in Ids :
       /\ vectorWorker.timer[id] = SearchTicks
       /\ vectorWorker' = onTimeout(vectorWorker, id)
  /\ UNCHANGED nonWorkerVars

NextWorker ==
  \/ InitVector
  \/ WorkerReady
  \/ SearchCall
  \/ \E id \in Ids, reply \in {"results", "not_indexed", "thrown"} : HandleSearch(id, reply)
  \/ WorkerMessage
  \/ WorkerError
  \/ WorkerExit
  \/ ClockTick
  \/ SearchTimeout

SpecWorker == InitLib /\ [][NextWorker]_vars

\* The event loop lets time pass and runs the timers that are due.
LiveWorker == SpecWorker /\ WF_vars(ClockTick) /\ WF_vars(SearchTimeout)

\* ---------------------------------------------------------------- embeddings
QUERY_PREFIX == "Represent this code search query: "
MAX_CHARS == 1800

\* The length of an embedding input: prefix, kept chars of the text, marker.
InputChars(text) == Len(text.prefix) + text.kept + Len(text.marker)

\* truncateForEmbedding(text)
truncateForEmbedding(text) ==
  IF InputChars(text) <= MAX_CHARS THEN text
  ELSE [prefix |-> text.prefix, kept |-> MAX_CHARS - Len(text.prefix),
        marker |-> "\n// ... truncated"]

\* embedQuery(query); loaded: initEmbedder has set the embedder.
embedQuery(query, loaded) ==
  /\ lib = NoCall
  /\ lib' = [op |-> "embedQuery", input |-> [text |-> query, loaded |-> loaded],
             output |-> IF ~loaded
                        THEN [error |-> "EmbedderNotInitialized", texts |-> <<>>]
                        ELSE [error |-> "",
                              texts |-> <<[prefix |-> QUERY_PREFIX, kept |-> query,
                                           marker |-> ""]>>]]
  /\ UNCHANGED nonLibVars

\* embedChunks(chunks): every chunk is truncated, the batch goes to the model.
embedChunks(chunkList, loaded) ==
  /\ lib = NoCall
  /\ lib' = [op |-> "embedChunks", input |-> [text |-> chunkList, loaded |-> loaded],
             output |-> IF ~loaded
                        THEN [error |-> "EmbedderNotInitialized", texts |-> <<>>]
                        ELSE [error |-> "",
                              texts |-> [i \in DOMAIN chunkList |->
                                           truncateForEmbedding(
                                             [prefix |-> "", kept |-> chunkList[i],
                                              marker |-> ""])]]]
  /\ UNCHANGED nonLibVars

\* The lengths of the queries and of the chunk texts.
QueryChars == (0..Window) \cup ((MAX_CHARS - 3 * Window)..(MAX_CHARS + Window))
ChunkChars == {0, 1, MAX_CHARS - 1, MAX_CHARS, MAX_CHARS + 1, 3 * MAX_CHARS}

NextEmbed ==
  \/ \E query \in QueryChars, loaded \in BOOLEAN : embedQuery(query, loaded)
  \/ \E chunkList \in SeqsUpTo(ChunkChars, MaxItems), loaded \in BOOLEAN :
        embedChunks(chunkList, loaded)
  \/ LibReturn

SpecEmbed == InitLib /\ [][NextEmbed]_vars

\* ----------------------------------------------------------------- properties
\* The number of entries of a queue that name s.
Count(q, s) == Cardinality({i \in DOMAIN q : q[i] = s})

\* The row ranges at the end of a source's rows cover the chunks 1..n in order.
RECURSIVE Covers(_, _)
Covers(rows, n) ==
  IF n = 0 THEN TRUE
  ELSE /\ rows # <<>>
       /\ rows[Len(rows)].hi = n
       /\ rows[Len(rows)].lo >= 1
       /\ Covers(SubSeq(rows, 1, Len(rows) - 1), rows[Len(rows)].lo - 1)

\* The absolute path p is the directory root or lies under it.
Under(root, p) == Len(root) <= Len(p) /\ SubSeq(p, 1, Len(root)) = root

\* The root directory of a source.
RootOf(s) == opensrcDir \o SourceDir(s)

\* C1: in every reachable state, whatever the interleaving of queueIndex calls,
\* scheduler steps and run completions (successful or failed), at most
\* MAX_CONCURRENT_INDEX = 2 sources are in the indexing set.
C1_ConcurrencyBound == Cardinality(indexingInProgress) <= MAX_CONCURRENT_INDEX

\* Two sources are indexing and a third waits in the queue, after a run failed
\* with an error result.
C1_Witness ==
  /\ Cardinality(indexingInProgress) = MAX_CONCURRENT_INDEX
  /\ Len(indexQueue) > 0
  /\ faults < MaxFaults
  /\ phase = "serving"

\* A source is in the queue at most once, and a queued source is neither
\* indexing nor indexed.
C2_QueueState ==
  \A s \in Sources :
    /\ Count(indexQueue, s) <= 1
    /\ InQueue(indexQueue, s) => s \notin indexingInProgress /\ ~isIndexed(indexed_sources, s)

\* The step in which fetch calls queueIndex leaves a source that is indexed,
\* queued or indexing as it was; a source leaves the queue only to start its
\* run, and a run starts only for a source that is not indexed, from its queue
\* entry or in the step of the caller that has just queued it.
C2_EnqueueStep ==
  \A s \in Sources :
    /\ ( /\ fetching.active /\ ~fetching'.active
         /\ s \in Range(fetching.specs)
         /\ \/ isIndexed(indexed_sources, s)
            \/ s \in indexingInProgress
            \/ InQueue(indexQueue, s) )
       => /\ Count(indexQueue', s) = Count(indexQueue, s)
          /\ (s \in indexingInProgress') = (s \in indexingInProgress)
          /\ task'[s] = task[s]
          /\ settled' = settled
    /\ Count(indexQueue', s) < Count(indexQueue, s)
       => s \notin indexingInProgress /\ s \in indexingInProgress'
    /\ (task[s].pc = "idle" /\ task'[s].pc # "idle")
       => /\ ~isIndexed(indexed_sources, s)
          /\ task'[s].pc = "glob"
          /\ InQueue(indexQueue, s) \/ (fetching.active /\ ~fetching'.active)
               \/ phase = "boot"

\* C2: queueIndex called k >= 1 times for a source before its run completes
\* gives one run: a call for a source that is indexed, queued or indexing
\* changes nothing, a source is never queued twice and never queued while it
\* is indexing.
C2_EnqueueIdempotent == []C2_QueueState /\ [][C2_EnqueueStep]_vars

\* A fetch is about to call queueIndex again for a source whose run is past its
\* first batch.
C2_Witness ==
  /\ fetching.active
  /\ fetching.ok = Range(fetching.specs)
  /\ \E s \in Range(fetching.specs) :
       s \in indexingInProgress /\ task[s].totalChunks > 0

\* C3: when a step of a run fails after batches of the run were inserted, the
\* partial rows are deleted: a source that is neither indexing nor indexed has
\* no row in the store.
C3_PartialRowsDeleted ==
  \A s \in Sources :
    (s \notin indexingInProgress /\ ~isIndexed(indexed_sources, s)) => chunks[s] = <<>>

\* C4: a failure of one run (an error result or an exception thrown by file
\* enumeration, the embedder or a store call) does not propagate: no rejection
\* is left unhandled and the process stays up.
C4_FailureContained == ~unhandledRejection /\ phase # "crashed"

\* The step that marks s indexed: every chunk the run read is in a row at the
\* end of the source's rows, and the index was built over them.
C5_MarkStep ==
  \A s \in Sources :
    /\ (~isIndexed(indexed_sources, s) /\ isIndexed(indexed_sources', s))
       => /\ task[s].pc \in {"read", "embed"}
          /\ task[s].pos = task[s].files \/ s \notin disk
          /\ Covers(chunks'[s], task[s].pos)
          /\ task[s].pos > 0 => quantized'[s] = Len(chunks'[s])
    /\ isIndexed(indexed_sources, s)
       => chunks'[s] = chunks[s] /\ quantized'[s] >= quantized[s]

\* No run of an indexed source is in flight.
C5_IndexedIsQuiet ==
  \A s \in indexed_sources : task[s] = IdleTask /\ s \notin indexingInProgress

\* C5: markIndexed happens only after every insertBatch of the run and after
\* finalize; once a source is indexed every row of that run is in the store and
\* in the index a search scans, and no row of the source is written later.
C5_MarkAfterInserts == []C5_IndexedIsQuiet /\ [][C5_MarkStep]_vars

\* A source of two batches is indexed and a search can return both.
C5_Witness ==
  /\ isIndexed(indexed_sources, "a")
  /\ Len(chunks["a"]) >= 2
  /\ quantized["a"] = Len(chunks["a"])
  /\ "a" \in disk

\* C6: read and every readMany entry of a listed source either access the
\* source root or a path under it, or fail with the path traversal error; no
\* file outside the source root is read.
C6_PathSafety ==
  access.op \in {"read", "readMany"} =>
    \A e \in access.entries :
      /\ e.status = "traversal" \/ Under(RootOf(access.source), e.full)
      /\ ~Under(RootOf(access.source), resolve(RootOf(access.source), e.arg))
           => e.status = "traversal"

\* readMany returned one content and refused the file of the sibling directory
\* whose name starts with the name of the root.
C6_Witness ==
  /\ access.op = "readMany"
  /\ access.source = "a"
  /\ \E e \in access.entries : e.status = "content"
  /\ \E e \in access.entries : e.status = "traversal" /\ e.full = <<"d", "ab", "f">>

\* C7: every file that files, tree, grep or astGrep lists or reads lies under
\* the root directory of a listed source, whatever the glob.
C7_GlobSafety ==
  access.op \in {"files", "tree", "grep", "astGrep"} =>
    \A e \in access.entries :
      e.status \in {"listed", "content"} => \E s \in sources : Under(RootOf(s), e.full)

\* C8: with opts.sources, the supplied sources that are indexing are reported as
\* {indexing, exactly those}; when none is indexing, the supplied sources that
\* are not indexed are reported as {not_indexed, exactly those}; in every state
\* of the store.
C8_ScopedStatus ==
  (searchResp # NoResp /\ searchResp.opt # {}) =>
    LET busy == searchResp.opt \cap indexingInProgress
        missing == {s \in searchResp.opt : ~isIndexed(indexed_sources, s)}
    IN /\ busy # {} => searchResp.error = "indexing" /\ searchResp.sources = busy
       /\ (busy = {} /\ missing # {})
            => searchResp.error = "not_indexed" /\ searchResp.sources = missing

\* C9 as stated: with no row in the store and nothing indexing the response is
\* {not_indexed, []} for every opts.sources.
C9_EmptySourcesList ==
  (searchResp # NoResp /\ ~hasData /\ indexingInProgress = {})
    => searchResp.error = "not_indexed" /\ searchResp.sources = {}

\* C9: with no row in the store and nothing indexing the response is
\* {not_indexed, sources}, the sources being the supplied opts.sources, and the
\* empty list when none was supplied.
C9_EchoesSuppliedSources ==
  (searchResp # NoResp /\ ~hasData /\ indexingInProgress = {})
    => searchResp.error = "not_indexed" /\ searchResp.sources = searchResp.opt

\* A search for two sources returned while the engine was ready, the store
\* empty and nothing indexing.
C9_Witness ==
  /\ searchResp # NoResp
  /\ searchResp.opt = {"a", "b"}
  /\ ready
  /\ ~hasData
  /\ indexingInProgress = {}

\* C10: every chunk a search returns belongs to a source that is listed and
\* whose files can be read; no result refers to a removed source.
C10_ResultsReadable ==
  searchResp.hit # NoHit
    => searchResp.hit.source \in sources /\ searchResp.hit.source \in disk

\* A source is queued, indexing or indexed in the state after the step.
TrackedNext(s) ==
  isIndexed(indexed_sources', s) \/ s \in indexingInProgress' \/ InQueue(indexQueue', s)

\* The step in which a fetch call returns, with the engine ready: every source
\* the call added to the sources list is queued, indexing or indexed.
C11_ReturnStep ==
  (fetching.active /\ ~fetching'.active /\ ready)
    => \A s \in sources' \ sources : TrackedNext(s)

\* C11: the fetch path always ends in queueIndex: when a fetch call returns,
\* with a result or an error, every source it added to the registry is queued,
\* indexing or indexed.
C11_FetchEndsInEnqueue == [][C11_ReturnStep]_vars

\* The step in which a fetch call returns its records: a record of a source
\* that was listed before the call says that the source already exists.
C12_ReturnStep ==
  (fetching.active /\ fetching'.status = "ok")
    => \A i \in DOMAIN fetching'.records :
         fetching'.records[i].source \in sources => fetching'.records[i].alreadyExists

\* C12: fetch(spec) after fetch(spec) is a single fetch, and the record the
\* second call returns has alreadyExists = true.
C12_SecondFetchAlreadyExists == [][C12_ReturnStep]_vars

\* C13: a fetch of N specs returns one record per spec also when some specs
\* failed; the failure of one spec does not make the call an error.
C13_OneRecordPerSpec ==
  fetching.status # ""
    => fetching.status = "ok" /\ Len(fetching.records) = Len(fetching.specs)

\* The script never gives control back, or returns a promise that never settles.
ExceedsDeadline(script) ==
  script.kind = "work" /\ (script.loops1 \/ (script.never /\ script.sync1 <= TimeoutTicks))

\* The message of an ExecutionTimeoutError.
SaysExecutionTimeout(message) == message = "Execution timeout (30000ms)"

\* C14: a script that exceeds the deadline, by a synchronous infinite loop or by
\* a promise that never settles, is answered with isError = true and a message
\* that contains "Execution timeout".
C14_DeadlineIsExecutionTimeout ==
  (sandbox.pc = "replied" /\ ExceedsDeadline(sandbox.script))
    => sandbox.reply.isError /\ SaysExecutionTimeout(sandbox.reply.message)

\* C15: one deadline bounds the whole call: counted in ticks from its start, the
\* call is never still running, and never answered, later than one deadline.
C15_OneDeadlineBoundsCall ==
  sandbox.pc # "hung" /\ sandbox.elapsed <= TimeoutTicks

\* The replies to the two documented scripts, with the message the second one
\* is to carry.
AmbientNamesReply(message) ==
  /\ (sandbox.pc = "replied" /\ sandbox.script.kind = "typeofProcess")
       => ~sandbox.reply.isError /\ sandbox.reply.text = "undefined"
  /\ (sandbox.pc = "replied" /\ sandbox.script.kind = "callRequire")
       => sandbox.reply.isError /\ sandbox.reply.message = message

\* C16, as stated: in every call `typeof process` is answered "undefined" and
\* `require("fs")` is answered with isError = true and the message of a name
\* that is not defined.
C16_RequireIsNotDefined == AmbientNamesReply("require is not defined")

\* C16: in every call `typeof process` is answered "undefined" and
\* `require("fs")` is answered with isError = true; require is bound to
\* undefined in the context, so the message is that of calling a non-function.
C16_AmbientNamesDenied == AmbientNamesReply("require is not a function")

C16_Witness ==
  /\ sandbox.pc = "replied" /\ sandbox.script.kind = "callRequire"
  /\ sandbox.reply.isError /\ sandbox.defined = {}

\* The values that carry the authority of the host.
HostCapabilities == {"HostFunctionCtor", "hostCompiled", "hostProcess"}

\* C17: no value a script reaches from the injected globals, the constructors
\* of the injected host functions included, is a host capability, and no reply
\* shows host state from outside the API.
C17_NoHostCapability ==
  sandbox.reached \notin HostCapabilities /\ sandbox.reply.text # "[host process]"

\* C18: the shutdown waits for the in-flight indexing writes before it closes
\* the store: when the process has exited, no run is left cut, so every source
\* with rows in the store has been marked indexed.
C18_ShutdownWaitsForWrites ==
  phase = "exited"
    => \A s \in Sources : chunks[s] # <<>> => isIndexed(indexed_sources, s)

C19_ConnectStep == (phase = "boot" /\ ~ready') => phase' = "serving"

\* The server without a ready engine: nothing is indexed or queued, the store
\* stays empty, and a search is answered not_indexed.
C19_Degraded ==
  (phase = "serving" /\ ~ready)
    => /\ indexingInProgress = {} /\ activeIndexCount = 0 /\ indexQueue = <<>>
       /\ \A s \in Sources : chunks[s] = <<>> /\ ~isIndexed(indexed_sources, s)
       /\ searchResp # NoResp => searchResp.error = "not_indexed"

C20_InsertStep ==
  \A s \in Sources :
    Len(chunks'[s]) > Len(chunks[s]) => task'[s].pc \in {"yield", "idle"}

\* While a run is at its yield the scheduler can pick a search.
C20_YieldServes ==
  \A s \in Sources :
    (task[s].pc = "yield" /\ Serving)
      => ENABLED (\E opt \in SUBSET Sources, hit \in Hits : Search(opt, hit))

\* C20: between any two consecutive insertBatch calls of a run the run yields
\* to the event loop, and at that yield a pending search can be served, so it
\* waits for at most one further batch of that run.
C20_YieldBetweenBatches == [][C20_InsertStep]_vars /\ []C20_YieldServes

C20_Witness ==
  \E s \in Sources :
    /\ task[s].pc = "yield" /\ task[s].pos < task[s].files
    /\ chunks[s] # <<>> /\ searchResp # NoResp

\* The chunks a run has inserted by the end of a step: its count so far and the
\* batch the step inserts.
TotalAfter(s) ==
  task[s].totalChunks
    + (IF Len(chunks'[s]) > Len(chunks[s])
       THEN task[s].batch.hi - task[s].batch.lo + 1 ELSE 0)

\* A step builds the vector index only when it ends a run that inserted chunks,
\* and then over every row; the step that marks a source indexed builds it if
\* the run inserted chunks and leaves it alone if the run inserted none.
C21_FinalizeStep ==
  /\ quantized' # quantized
       => \E s \in Sources :
            /\ task[s].pc # "idle" /\ task'[s].pc = "idle"
            /\ TotalAfter(s) > 0
            /\ quantized' = finalizeVectorIndex(chunks')
  /\ \A s \in Sources :
       (~isIndexed(indexed_sources, s) /\ isIndexed(indexed_sources', s))
         => IF TotalAfter(s) > 0
            THEN quantized' = finalizeVectorIndex(chunks')
            ELSE quantized' = quantized

\* C21: a run that ends with markIndexed calls finalize once, after its last
\* insertBatch and never between batches, if it inserted chunks; a run of an
\* empty source does not call finalize and still marks the source.
C21_FinalizeOnceAtEnd == [][C21_FinalizeStep]_vars

\* A source of two batches and an empty source are both marked; the index holds
\* the two batches of the first and nothing of the second.
C21_Witness ==
  /\ isIndexed(indexed_sources, "a") /\ quantized["a"] = 2
  /\ isIndexed(indexed_sources, "c") /\ chunks["c"] = <<>> /\ quantized["c"] = 0

\* The step in which a run of s ends without marking s: s is in state unknown.
C22_FailStep ==
  \A s \in Sources :
    (task[s].pc # "idle" /\ task'[s].pc = "idle" /\ ~isIndexed(indexed_sources', s))
      => /\ s \notin indexingInProgress'
         /\ ~InQueue(indexQueue', s)

\* The step in which a fetch of a source in state unknown returns, the engine
\* being ready: the source is queued or indexing, and indexing if a slot is free.
C22_RequeueStep ==
  \A s \in Sources :
    (/\ fetching.active /\ fetching'.status = "ok" /\ ready
     /\ s \in Range(fetching.specs)
     /\ ~isIndexed(indexed_sources, s) /\ s \notin indexingInProgress
     /\ ~InQueue(indexQueue, s))
      => /\ s \in indexingInProgress' \/ InQueue(indexQueue', s)
         /\ activeIndexCount < MAX_CONCURRENT_INDEX
              => s \in indexingInProgress' /\ task'[s].pc = "glob"

NotEmpty(file) ==
  CASE file.ext \in {"ts", "rs"} -> file.items # <<>>
    [] OTHER -> NonBlank(file.lines, 1, Len(file.lines)) # {}

\* C23: every file of the allow-list that is readable and not empty gives at
\* least one chunk, so that a row of it is in the store after markIndexed.
C23_IndexCompleteness ==
  (lib.op = "chunkFiles" /\ lib.input.readable /\ NotEmpty(lib.input.file))
    => lib.output # <<>>

\* Two chunks share a line.
Overlap(c, d) == c.startLine <= d.endLine /\ d.startLine <= c.endLine

\* The pairs of chunks of one file that share a line.
Overlapping(chunkList) ==
  {p \in (DOMAIN chunkList) \X (DOMAIN chunkList) :
     p[1] < p[2] /\ Overlap(chunkList[p[1]], chunkList[p[2]])}

\* The file went through the TS-family, Rust or Markdown strategy.
Structured == lib.op = "chunkFiles" /\ lib.input.file.ext \in {"ts", "rs", "md"}

NestedKinds(c, d) ==
  \/ c.kind \in {"class", "impl"} /\ d.kind = "method"
       /\ c.startLine < d.startLine /\ d.endLine < c.endLine
  \/ c.kind = "section" /\ d.kind = "codeblock"

C24_NameIsUnique ==
  lib.op = "readSources"
    => \A i, j \in DOMAIN lib.output :
         lib.output[i].name = lib.output[j].name => i = j

\* C25: a scan with a source filter returns at most topK rows, each of a source
\* of the filter, in ascending distance, rows of equal distance by ascending
\* row id.
C25_ScanOrder ==
  (lib.op = "scan" /\ lib.input.sources # {})
    => LET rows == lib.input.rows
           r == lib.output
       IN /\ Len(r) <= lib.input.topK
          /\ \A i \in DOMAIN r : rows[r[i]].source \in lib.input.sources
          /\ \A i, j \in DOMAIN r :
               i < j => \/ rows[r[i]].distance < rows[r[j]].distance
                        \/ rows[r[i]].distance = rows[r[j]].distance /\ r[i] < r[j]

\* Every matching line of the readable files of a tree, as <<source, file,
\* line>>, in source order, then file order, then ascending line.
AllMatches(tree) ==
  Concat([s \in DOMAIN tree |->
    Concat([f \in DOMAIN tree[s] |->
      IF tree[s][f].readable
      THEN SelectSeq([i \in 1..tree[s][f].n |-> <<s, f, i>>],
                     LAMBDA x : Matches(tree[s][f], x[3]))
      ELSE <<>>])])

\* The files of a tree up to file f of source s.
FilesUpTo(tree, s, f) ==
  f + Cardinality({p \in (1..(s - 1)) \X (1..MaxGrep) : p[2] <= Len(tree[p[1]])})

\* C26: grep returns the first min(maxResults, number of matching lines)
\* matching lines in source, file and line order, and once maxResults results
\* are produced it tests no further line, reads no further file and lists no
\* further source.
C26_GrepCap ==
  lib.op = "grep"
    => LET all == AllMatches(lib.input.tree)
           cap == lib.input.maxResults
           out == lib.output
       IN /\ out.results = SubSeq(all, 1, Min(cap, Len(all)))
          /\ (cap = 0) => out.tested = <<>> /\ out.opened = 0 /\ out.globbed = 0
          /\ (cap > 0 /\ Len(out.results) = cap)
               => LET last == out.results[cap]
                  IN /\ out.tested = last
                     /\ out.globbed = last[1]
                     /\ out.opened = FilesUpTo(lib.input.tree, last[1], last[2])

\* The default cap cuts a grep with more than a hundred matching lines.
C26_Witness ==
  /\ lib.op = "grep" /\ lib.input.maxResults = DEFAULT_MAX_RESULTS
  /\ Len(lib.output.results) = DEFAULT_MAX_RESULTS
  /\ Len(AllMatches(lib.input.tree)) > DEFAULT_MAX_RESULTS

\* A readMany call on a listed source returns an entry for each supplied path.
C27_ReadManyStep ==
  \A s \in Sources, paths \in PathLists :
    (ReadMany(s, paths) /\ s \in sources) =>
      \A i \in DOMAIN paths :
        \E e \in access'.entries :
          e.arg = paths[i] /\ e.status \in {"content", "traversal", "fs_error"}

\* C27: the map readMany returns for a listed source has, for every element of
\* the supplied paths, literal or glob, an entry keyed by that element that
\* holds the content or an "[Error: ...]" string.
C27_EntryPerSuppliedPath == [][C27_ReadManyStep]_vars

\* The length of a footer.
RECURSIVE FooterLen(_)
FooterLen(footer) == IF footer = <<>> THEN 0 ELSE Len(Head(footer)) + FooterLen(Tail(footer))

\* C28: truncate returns a text of at most 32 000 chars unchanged; of a longer
\* one it returns the first 32 000 chars and, after a blank line, a footer that
\* begins with "--- TRUNCATED ---" and has the same length for every input.
C28_FixedLengthFooter ==
  lib.op = "truncate" =>
    LET n == lib.input.chars
        out == lib.output
        shortest == truncate([type |-> "string", chars |-> 32001])
    IN /\ n <= 32000 => out = [kept |-> n, footer |-> <<>>]
       /\ n > 32000 =>
            /\ out.kept = 32000
            /\ out.footer[2] = "--- TRUNCATED ---"
            /\ FooterLen(out.footer) = FooterLen(shortest.footer)

\* C29: every text that embedQuery or embedChunks hands to the model is the
\* input, with the prefix for a query, truncated by truncateForEmbedding, and
\* so has at most MAX_CHARS chars plus the marker.
C29_QueryIsTruncated ==
  lib.op \in {"embedQuery", "embedChunks"} =>
    \A i \in DOMAIN lib.output.texts :
      LET text == lib.output.texts[i]
      IN /\ text = truncateForEmbedding([text EXCEPT !.kept =
                     IF lib.op = "embedQuery" THEN lib.input.text
                     ELSE lib.input.text[i], !.marker = ""])
         /\ InputChars(text) <= MAX_CHARS + Len("\n// ... truncated")

\* The lines without the blank lines at the end.
RECURSIVE StripTrailing(_)
StripTrailing(joined) ==
  IF joined # <<>> /\ joined[Len(joined)] = "blank"
  THEN StripTrailing(SubSeq(joined, 1, Len(joined) - 1)) ELSE joined

\* The file went through the Markdown or the sliding-window strategy.
Unstructured == lib.op = "chunkFiles" /\ lib.input.file.ext \in {"md", "txt"}

\* Every chunk lies within the file.
RangeInFile ==
  Unstructured =>
    \A i \in DOMAIN lib.output :
      /\ 1 <= lib.output[i].startLine
      /\ lib.output[i].startLine <= lib.output[i].endLine
      /\ lib.output[i].endLine <= Len(lib.input.file.lines)

\* C31: every chunk of the Markdown and sliding-window strategies has
\* 1 <= startLine <= endLine <= number of lines of the file, and its content is
\* the text of the lines startLine..endLine up to trailing newlines.
C31_ContentIsFileSlice ==
  /\ RangeInFile
  /\ Unstructured =>
       \A i \in DOMAIN lib.output :
         StripTrailing(lib.output[i].content)
           = StripTrailing(SubSeq(lib.input.file.lines, lib.output[i].startLine,
                                  lib.output[i].endLine))

\* The fenced blocks of a file as <<opening line, closing line>>: a line that
\* starts with ``` opens a block, the next such line closes it.
RECURSIVE FencedBlocks(_, _, _)
FencedBlocks(lines, i, open) ==
  IF i > Len(lines) THEN {}
  ELSE IF ~startsWithFence(lines[i]) THEN FencedBlocks(lines, i + 1, open)
  ELSE IF open = 0 THEN FencedBlocks(lines, i + 1, i)
  ELSE {<<open, i>>} \cup FencedBlocks(lines, i + 1, 0)

\* C35: every fenced code block with a body of more than 20 characters gives
\* exactly one codeblock chunk, from its opening to its closing fence, named
\* codeblock_<lang>_L<startLine>, and no other codeblock chunk is emitted,
\* whatever text follows the ``` of the opening fence.
C35_CodeBlocksAreFencedBlocks ==
  (lib.op = "chunkFiles" /\ lib.input.readable /\ lib.input.file.ext = "md") =>
    LET lines == lib.input.file.lines
        blocks == {b \in FencedBlocks(lines, 1, 0) : TrimLen(lines, b[1] + 1, b[2] - 1) > 20}
        emitted == {i \in DOMAIN lib.output : lib.output[i].kind = "codeblock"}
    IN /\ \A i \in emitted :
            /\ <<lib.output[i].startLine, lib.output[i].endLine>> \in blocks
            /\ lib.output[i].identifier[1] = "codeblock"
            /\ lib.output[i].identifier[3] = lib.output[i].startLine
       /\ \A b \in blocks :
            Cardinality({i \in emitted : lib.output[i].startLine = b[1]
                                           /\ lib.output[i].endLine = b[2]}) = 1

\* The file went through the sliding-window strategy.
Windowed == lib.op = "chunkFiles" /\ lib.input.readable /\ lib.input.file.ext = "txt"

\* The lines two chunks share.
Shared(c, d) == (c.startLine..c.endLine) \cap (d.startLine..d.endLine)

\* Every window starts at a line 1, 36, 71, ..., covers at most 50 lines, ends
\* with the window or the file, and is named by its lines.
WindowShape ==
  \A i \in DOMAIN lib.output :
    LET c == lib.output[i]
    IN /\ c.startLine % (WINDOW_SIZE - OVERLAP) = 1
       /\ c.endLine = Min(c.startLine + WINDOW_SIZE - 1, Len(lib.input.file.lines))
       /\ c.identifier = <<"lines", c.startLine, c.endLine>>

\* Every non-blank line lies in an emitted window.
WindowsCover ==
  \A k \in NonBlank(lib.input.file.lines, 1, Len(lib.input.file.lines)) :
    \E i \in DOMAIN lib.output : k \in lib.output[i].startLine..lib.output[i].endLine

\* No emitted window lies within the one emitted before it.
NotContained ==
  \A i \in DOMAIN lib.output :
    i > 1 => lib.output[i].endLine > lib.output[i - 1].endLine

\* C36, as stated: consecutive emitted windows share exactly 15 lines, fewer
\* only when the later one ends with the file.
C36_ConsecutiveShareOverlap ==
  Windowed =>
    /\ WindowShape /\ WindowsCover /\ NotContained
    /\ \A i \in DOMAIN lib.output :
         i > 1 =>
           \/ Cardinality(Shared(lib.output[i - 1], lib.output[i])) = OVERLAP
           \/ /\ Cardinality(Shared(lib.output[i - 1], lib.output[i])) < OVERLAP
              /\ lib.output[i].endLine = Len(lib.input.file.lines)

\* C36: the windows start at lines 1, 36, 71, ..., cover at most 50 lines and
\* are named lines_<start>_<end>; two emitted windows whose starts are 35 lines
\* apart share exactly 15 lines, and between two emitted windows further apart
\* every window is blank and dropped; every non-blank line lies in an emitted
\* window, and no emitted window lies within the one before it.
C36_WindowsOfFallback ==
  Windowed =>
    /\ WindowShape /\ WindowsCover /\ NotContained
    /\ \A i \in DOMAIN lib.output :
         i > 1 =>
           LET c == lib.output[i - 1]
               d == lib.output[i]
           IN /\ c.startLine < d.startLine
              /\ d.startLine = c.startLine + (WINDOW_SIZE - OVERLAP)
                   => Cardinality(Shared(c, d)) = OVERLAP
              /\ NonBlank(lib.input.file.lines, c.startLine + (WINDOW_SIZE - OVERLAP),
                          d.startLine - 1) = {}

\* Two emitted windows with a dropped blank window between them, and a third
\* window after them.
C36_Witness ==
  /\ Windowed
  /\ Len(lib.output) >= 3
  /\ lib.output[2].startLine = lib.output[1].startLine + 2 * (WINDOW_SIZE - OVERLAP)
  /\ lib.output[3].startLine = lib.output[2].startLine + (WINDOW_SIZE - OVERLAP)

\* No fetch and no remove call is in flight.
Quiet == phase = "serving" /\ ~fetching.active /\ fetching.status = "" /\ removing = {}

\* A remove call that returns leaves no source of its names in the list.
C32_RemoveStep ==
  \A r \in removing : RemoveResume(r) => r.names \cap sources' = {}

\* A fetch that returns its records has listed the sources of its specs.
C32_FetchStep ==
  (FetchReturn /\ fetching'.status = "ok") => Range(fetching.specs) \subseteq sources'

\* C32: after a successful fetch the source is listed, after remove([name]) no
\* source of that name is listed, and when the calls have returned the list in
\* memory is the list of the manifest, which a restart reads.
C32_ListIsManifest ==
  /\ [][C32_FetchStep]_vars
  /\ [][C32_RemoveStep]_vars
  /\ [](Quiet => sources = manifest)

\* A remove call that returns has dropped from the list what it reports.
C39_RemoveStep ==
  \A r \in removing : RemoveResume(r) => (sources \ sources') = r.removed

\* A clean call has dropped from the list the sources whose removal succeeded.
C39_CleanStep ==
  \A options \in SUBSET {"packages", "repos", "npm"}, gone \in SUBSET Sources :
    Clean(options, gone) => (sources \ sources') = gone

\* C39: the sources that remove(names) drops from list() are the ones its
\* result reports as removed; a named source whose removal was not performed
\* stays listed, as it does for clean.
C39_DroppedIsRemoved == [][C39_RemoveStep]_vars /\ [][C39_CleanStep]_vars

\* Control is back in the event loop: no .finally callback of a settled run is
\* waiting in the microtask queue.
AtEventLoop == phase = "serving" /\ settled.fulfilled = 0 /\ settled.rejected = 0

\* A non-empty queue means the scheduler is at capacity, and the counter is the
\* number of unfinished runs.
QueueInvariant ==
  AtEventLoop =>
    /\ indexQueue # <<>> => activeIndexCount = MAX_CONCURRENT_INDEX
    /\ activeIndexCount = Cardinality(indexingInProgress)

\* The runs a step starts are those of the sources at the head of the queue.
FifoStep ==
  phase = "serving" =>
    \E k \in 0..Len(indexQueue) :
      /\ indexQueue' = SubSeq(indexQueue, k + 1, Len(indexQueue))
      /\ (indexingInProgress' \ indexingInProgress) = {indexQueue[i] : i \in 1..k}

\* C33: when control is back in the event loop a non-empty queue means
\* activeIndexCount = MAX_CONCURRENT_INDEX and the counter is the number of
\* unfinished runs; sources are started in the order of the queue; and every
\* queued source is eventually started, every run terminating.
C33_QueuedIsStarted ==
  /\ []QueueInvariant
  /\ [][FifoStep]_vars
  /\ \A s \in MoreSources : InQueue(indexQueue, s) ~> (s \in indexingInProgress)


\* C34: tools/call execute gives a text reply for every result of the executor:
\* for Ok of any value the truncated text of the value without isError, for Err
\* the text "Error: <message>" with isError.
C34_ExecuteRepliesText ==
  lib.op = "execute" =>
    /\ ~lib.output.thrown
    /\ lib.input.ok =>
         ~lib.output.isError /\ lib.output.text = truncate(lib.input.value)
    /\ ~lib.input.ok =>
         lib.output.isError /\ lib.output.text = <<"Error: ", lib.input.message>>


\* The rows of source s that hold its k-th chunk: the chunker is a function of
\* the tree, so the k-th chunk of every run has the same file, identifier,
\* startLine and endLine.
RowsOf(s, k) == {i \in DOMAIN chunks[s] : chunks[s][i].lo <= k /\ k <= chunks[s][i].hi}

\* C37: after any sequence of runs, failed runs and re-enqueues, the store holds
\* each chunk of an indexed source once: no two rows of the source have the same
\* (source, file, identifier, startLine, endLine).
C37_ChunkRowsUnique ==
  \A s \in indexed_sources :
    \A k \in 1..NumChunks(s) : Cardinality(RowsOf(s, k)) <= 1


\* C38: a search never returns a row of a source that is not marked indexed at
\* the time of the search, with or without a source filter, also while other
\* sources are being indexed and after a run has failed.
C38_HitsAreIndexed ==
  (searchResp.error = "none" /\ searchResp.hit # NoHit)
    => isIndexed(indexed_sources, searchResp.hit.source)


\* The search call id was made, and its promise has settled.
Issued(id) == id < vectorWorker.nextId
Settled(id) == vectorWorker.outcome[id] # "none"

\* A call that has settled took one call of resolve or reject, with the results,
\* the not_indexed error or the timeout after the full delay; it has no entry
\* in the pending map and no active timer.  A call that has not settled has both.
SettledState ==
  \A id \in Ids :
    /\ vectorWorker.calls[id] = IF Settled(id) THEN 1 ELSE 0
    /\ vectorWorker.outcome[id] \in {"none", "results", "not_indexed", "timeout"}
    /\ Settled(id) => id \notin vectorWorker.pending /\ vectorWorker.timer[id] = NoTimer
    /\ vectorWorker.outcome[id] = "timeout" => vectorWorker.waited[id] = SearchTicks
    /\ (Issued(id) /\ ~Settled(id))
         => id \in vectorWorker.pending /\ vectorWorker.timer[id] \in 0..SearchTicks

\* No step changes anything of a call that has settled, whatever arrives.
SettledStep ==
  \A id \in Ids :
    Settled(id) =>
      /\ vectorWorker.outcome'[id] = vectorWorker.outcome[id]
      /\ vectorWorker.calls'[id] = vectorWorker.calls[id]
      /\ vectorWorker.waited'[id] = vectorWorker.waited[id]
      /\ vectorWorker.timer'[id] = NoTimer
      /\ id \notin vectorWorker.pending'

\* C40: in the worker-based vector module every search call settles exactly
\* once, with the worker's results, the not_indexed error or the "Search
\* timeout" rejection after the 30 000 ms of its timer; a settled call has no
\* entry in the pending map and no active timer, and a reply, an error or an
\* exit of the worker that comes after it settled changes nothing of it.
C40_SearchSettlesOnce ==
  /\ []SettledState
  /\ [][SettledStep]_vars
  /\ \A id \in Ids : Issued(id) ~> Settled(id)

\* One call timed out and the reply that came later found no entry; another
\* call was answered by the worker.
C40_Witness ==
  \E id, other \in Ids :
    /\ vectorWorker.outcome[id] = "timeout"
    /\ vectorWorker.ignored > 0
    /\ vectorWorker.outcome[other] = "results"

====
